---- MODULE Spec2Model ----
(***************************************************************************)
(* Fit-Check: the outfit orchestrator (App), its panels and the remote     *)
(* service wrappers.  Two orchestrators exist in the repository: the       *)
(* immediate-apply one (src/App.tsx, updateOutfit) and the staged one      *)
(* (src/unnamed/part_002, handlePendingChange / handleApplyChanges).       *)
(* Every handler is one action; an awaited remote call splits a handler    *)
(* into the part before the await and a continuation that runs when the    *)
(* promise settles.  A continuation runs with the closure of the render in *)
(* which its handler was invoked, which the task record carries as "view". *)
(***************************************************************************)
EXTENDS Integers, Sequences, FiniteSets, TLC

VARIABLES
  baseModelUrl,       \* useState<string | null>
  displayImageUrl,    \* useState<string | null>
  wornTop,            \* useState<WardrobeItem | null>
  wornBottom,         \* useState<WardrobeItem | null>
  currentExpression,  \* useState('Default')
  currentBackground,  \* useState('Original Studio')
  currentPoseIndex,   \* useState(0)
  pendingChanges,     \* useState<PendingChanges | null> (staged design only)
  isLoading,          \* useState(false)
  loadingMessage,     \* useState('')
  error,              \* useState<string | null>
  wardrobe,           \* useState<WardrobeItem[]>(defaultWardrobe)
  isCategorizing,     \* WardrobePanel local state
  isValidating,       \* ScenePanel local state
  wardrobeError,      \* WardrobePanel local state: useState<string | null>(null)
  sceneError,         \* ScenePanel local state: useState('')
  tasks,              \* promises awaited by suspended handlers
  nextId,             \* number of asynchronous operations started so far
  now,                \* the latest value Date.now() returned
  call,               \* harness: the pure function applied last, with its inputs
  design,             \* which of the two orchestrators of the repository runs
  settled             \* history: the outcome the latest step handled, if any

auxVars == <<call, design>>

vars == <<baseModelUrl, displayImageUrl, wornTop, wornBottom, currentExpression,
          currentBackground, currentPoseIndex, pendingChanges, isLoading,
          loadingMessage, error, wardrobe, isCategorizing, isValidating,
          wardrobeError, sceneError,
          tasks, nextId, now, call, design, settled>>

committedVars == <<wornTop, wornBottom, currentExpression, currentBackground,
                   currentPoseIndex>>

panelVars == <<isCategorizing, isValidating, wardrobeError, sceneError>>

-----------------------------------------------------------------------------
(* Bounds of the model *)

MaxTasks == 3          \* asynchronous operations started, immediate-apply design
MaxStagedTasks == 2    \* asynchronous operations started, staged design
MaxTopChoices == 2     \* tops of the wardrobe grid the user clicks on
MaxBottomChoices == 1  \* bottoms of the wardrobe grid the user clicks on
MaxClock == 1          \* latest value Date.now() takes
MaxPatchFields == 2    \* fields a partial update of the pending outfit names
MaxCandidates == 2     \* candidates of a response of the image model

-----------------------------------------------------------------------------
(* Values *)

Null == [kind |-> "null"]
Undefined == "undefined"
EmptyMessage == [kind |-> "empty"]   \* the empty string as an error message
NotValidating == "null"   \* isValidating is 'expression' | 'background' | null

Item(id, category, activeColor) ==
  [id |-> id, category |-> category, activeColor |-> activeColor]

defaultWardrobe ==
  << Item("gemini-sweat", "top", Undefined),
     Item("gemini-tee", "top", Undefined),
     Item("black-hoodie", "top", Undefined),
     Item("white-shirt", "top", Undefined),
     Item("leather-jacket", "top", Undefined),
     Item("red-flannel", "top", Undefined),
     Item("striped-sweater", "top", Undefined),
     Item("blue-polo", "top", Undefined),
     Item("denim-jeans", "bottom", Undefined),
     Item("cargo-shorts", "bottom", Undefined),
     Item("khaki-chinos", "bottom", Undefined),
     Item("grey-sweatpants", "bottom", Undefined),
     Item("black-trousers", "bottom", Undefined),
     Item("denim-skirt", "bottom", Undefined),
     Item("plaid-skirt", "bottom", Undefined) >>

POSE_INSTRUCTIONS ==
  << "Full frontal view, hands on hips",
     "Slightly turned, 3/4 view",
     "Side profile view",
     "Jumping in the air, mid-action shot",
     "Walking towards camera",
     "Leaning against a wall" >>

COLORS == << "#d94e4e", "#5a81e1", "#64b664", "#e1e161", "#333333", "#ffffff" >>

EXPRESSION_PRESETS == << "Default", "Happy", "Laughing", "Surprised", "Stoic" >>

BACKGROUND_PRESETS ==
  << "Original Studio", "City Park", "Beach at Sunset", "Modern Loft",
     "Basketball Court" >>

Min(a, b) == IF a < b THEN a ELSE b

IsTop(item) == item.category = "top"
IsBottom(item) == item.category = "bottom"

\* WardrobePanel: the two grids
tops == SelectSeq(wardrobe, IsTop)
bottoms == SelectSeq(wardrobe, IsBottom)

Prefix(s, n) == { s[i] : i \in 1..Min(n, Len(s)) }

\* Inputs of the user, bounded
GarmentChoices == Prefix(tops, MaxTopChoices) \cup Prefix(bottoms, MaxBottomChoices)
\* The swatches the user clicks on: the one that reverts, and a color
ColorChoices == {"original", COLORS[1]}
\* Mutant of PoseChoices: the buttons pass their position counted from one
PoseChoicesOneBased == {1, Len(POSE_INSTRUCTIONS)}

\* The pose buttons the user clicks on, by index: the first and the last
PoseChoices == {0, Len(POSE_INSTRUCTIONS) - 1}
\* The preset button of each ScenePanel row the user clicks on: the default
\* one, which takes a custom text back
ExpressionChoices == {EXPRESSION_PRESETS[1]}
BackgroundChoices == {BACKGROUND_PRESETS[1]}
CustomTexts == [expression |-> {"Winking"}, background |-> {"Mars colony in 2140"}]
\* The model image the start screen finalizes
ModelUrls == { [kind |-> "model"] }

-----------------------------------------------------------------------------
(* Text: a remote text answer is a sequence of characters *)

IsSpace(c) == c \in {" ", "\n", "\t"}

RECURSIVE TrimStart(_)
TrimStart(s) ==
  IF s # <<>> /\ IsSpace(Head(s)) THEN TrimStart(Tail(s)) ELSE s

RECURSIVE TrimEnd(_)
TrimEnd(s) ==
  IF s # <<>> /\ IsSpace(s[Len(s)]) THEN TrimEnd(SubSeq(s, 1, Len(s) - 1)) ELSE s

\* String.prototype.trim
Trim(s) == TrimEnd(TrimStart(s))

LowerChar(c) ==
  CASE c = "A" -> "a" [] c = "B" -> "b" [] c = "C" -> "c" [] c = "E" -> "e"
    [] c = "J" -> "j" [] c = "K" -> "k" [] c = "M" -> "m" [] c = "N" -> "n"
    [] c = "O" -> "o" [] c = "P" -> "p" [] c = "S" -> "s" [] c = "T" -> "t"
    [] c = "Y" -> "y" [] OTHER -> c

\* String.prototype.toLowerCase
ToLowerCase(s) == [i \in 1..Len(s) |-> LowerChar(s[i])]

TextTop == <<"t", "o", "p">>
TextBottom == <<"b", "o", "t", "t", "o", "m">>
TextYes == <<"y", "e", "s">>

\* Answers the remote text model gives
TextResponse(text) == [text |-> text]
CategoryAnswers ==
  { TextResponse(TextTop), TextResponse(<<"T", "O", "P">>),
    TextResponse(<<" ", "B", "o", "t", "t", "o", "m", "\n">>),
    TextResponse(<<"j", "a", "c", "k", "e", "t">>) }
ValidationAnswers ==
  { TextResponse(TextYes), TextResponse(<<"Y", "e", "s", "\n">>),
    TextResponse(<<"n", "o">>), TextResponse(<<"y", "e", "s", ".">>) }

\* A rejected promise (network, auth, malformed request)
Thrown == [kind |-> "thrown"]

-----------------------------------------------------------------------------
(* services: handleApiResponse, categorizeGarment, validateInput *)

Ok(value) == [ok |-> TRUE, value |-> value]
Throw(err) == [ok |-> FALSE, error |-> err]

HasInlineData(part) == part.inlineData # Null

\* Mutant of FindImagePart: the last part with inline data is taken
FindImagePartLast(parts) ==
  IF \E i \in 1..Len(parts) : HasInlineData(parts[i])
  THEN parts[CHOOSE i \in 1..Len(parts) :
               /\ HasInlineData(parts[i])
               /\ \A j \in (i + 1)..Len(parts) : ~HasInlineData(parts[j])]
  ELSE Null

\* parts.find(part => part.inlineData)
FindImagePart(parts) ==
  IF \E i \in 1..Len(parts) : HasInlineData(parts[i])
  THEN parts[CHOOSE i \in 1..Len(parts) :
               /\ HasInlineData(parts[i])
               /\ \A j \in 1..(i - 1) : ~HasInlineData(parts[j])]
  ELSE Null

\* the for loop over response.candidates
RECURSIVE ScanCandidates(_)
ScanCandidates(candidates) ==
  IF candidates = <<>> THEN Null
  ELSE LET imagePart == FindImagePart(Head(candidates).parts)
       IN IF imagePart # Null THEN imagePart.inlineData
          ELSE ScanCandidates(Tail(candidates))

\* Mutant of handleApiResponse: the candidates are scanned before the block
\* reason is looked at
handleApiResponseImageFirst(response) ==
  LET inlineData == ScanCandidates(response.candidates)
  IN IF inlineData # Null
     THEN Ok([kind |-> "image", mimeType |-> inlineData.mimeType,
              data |-> inlineData.data])
     ELSE IF response.blockReason # Undefined
     THEN Throw([kind |-> "Blocked", reason |-> response.blockReason])
     ELSE Throw([kind |-> "Empty", text |-> Trim(response.text)])

handleApiResponse(response) ==
  IF response.blockReason # Undefined
  THEN Throw([kind |-> "Blocked", reason |-> response.blockReason])
  ELSE LET inlineData == ScanCandidates(response.candidates)
           finishReason == IF response.candidates = <<>> THEN Undefined
                           ELSE response.candidates[1].finishReason
       IN IF inlineData # Null
          THEN Ok([kind |-> "image", mimeType |-> inlineData.mimeType,
                   data |-> inlineData.data])
          ELSE IF finishReason # Undefined /\ finishReason # "STOP"
          THEN Throw([kind |-> "Refused", reason |-> finishReason])
          ELSE Throw([kind |-> "Empty", text |-> Trim(response.text)])

\* Mutant of categorizeGarment: a label that is not "bottom" counts as a top
categorizeGarmentDefaulting(response) ==
  IF ToLowerCase(Trim(response.text)) = TextBottom THEN Ok("bottom") ELSE Ok("top")

\* categorizeGarment, after the remote answer has arrived
categorizeGarment(response) ==
  LET category == ToLowerCase(Trim(response.text))
  IN IF category = TextTop THEN Ok("top")
     ELSE IF category = TextBottom THEN Ok("bottom")
     ELSE Throw([kind |-> "Uncategorized", text |-> category])

\* Mutant of validateInput: an answer that starts with "yes" counts as valid
validateInputByPrefix(response) ==
  LET answer == ToLowerCase(Trim(response.text))
  IN Len(answer) >= 3 /\ SubSeq(answer, 1, 3) = TextYes

\* validateInput, after the remote answer has arrived
validateInput(response) == ToLowerCase(Trim(response.text)) = TextYes

\* lib/utils getFriendlyErrorMessage(err, context)
getFriendlyErrorMessage(err, context) ==
  [kind |-> "message", context |-> context, cause |-> err.kind]

TextPart(t) == [inlineData |-> Null, text |-> t]
ImagePart(mimeType, data) ==
  [inlineData |-> [mimeType |-> mimeType, data |-> data], text |-> Undefined]

Response(blockReason, candidates, text) ==
  [blockReason |-> blockReason, candidates |-> candidates, text |-> text]

Candidate(finishReason, parts) == [finishReason |-> finishReason, parts |-> parts]

\* The arguments of the generateCompositeImage call task t stands for
Request(t) ==
  [id |-> t.id, baseModelUrl |-> t.baseModelUrl,
   poseInstruction |-> t.poseInstruction, top |-> t.top, bottom |-> t.bottom,
   expression |-> t.expression, background |-> t.background]

\* What the image model can answer to the request of task t; an image it
\* returns is a rendering of that request
Responses(t) ==
  LET img == ImagePart("image/png", [of |-> Request(t)])
  IN { Response(Undefined, <<Candidate("STOP", <<TextPart("done"), img>>)>>, <<>>),
       Response("SAFETY", <<Candidate("STOP", <<img>>)>>, <<>>),
       Response(Undefined, <<Candidate("SAFETY", <<>>)>>, <<>>),
       Response(Undefined, <<>>, <<" ", "n", "o", " ">>) }

-----------------------------------------------------------------------------
(* Shared pieces of the two orchestrators *)

\* The closure of the current App render, as the immediate-apply handlers
\* created in that render see it
View ==
  [baseModelUrl |-> baseModelUrl, wornTop |-> wornTop, wornBottom |-> wornBottom,
   currentExpression |-> currentExpression,
   currentBackground |-> currentBackground,
   currentPoseIndex |-> currentPoseIndex, isLoading |-> isLoading]

\* The committed outfit as one record
Committed ==
  [top |-> wornTop, bottom |-> wornBottom, expression |-> currentExpression,
   background |-> currentBackground, poseIndex |-> currentPoseIndex]

\* item?.id
IdOf(item) == IF item = Null THEN Undefined ELSE item.id

\* item?.activeColor
ActiveColorOf(item) == IF item = Null THEN Undefined ELSE item.activeColor

\* POSE_INSTRUCTIONS[poseIndex]
PoseText(poseIndex) ==
  IF poseIndex \in 0..(Len(POSE_INSTRUCTIONS) - 1)
  THEN POSE_INSTRUCTIONS[poseIndex + 1] ELSE Undefined

\* The pending promise of generateCompositeImage(baseModelUrl, pose, top, ...)
\* together with the local variables of the handler suspended on it
GenTask(id, base, top, bottom, expression, background, poseIndex) ==
  [kind |-> "gen", id |-> id, baseModelUrl |-> base,
   poseInstruction |-> PoseText(poseIndex), top |-> top, bottom |-> bottom,
   expression |-> expression, background |-> background,
   poseIndex |-> poseIndex]

GenTasks == { t \in tasks : t.kind = "gen" }
PanelTasks == { t \in tasks : t.kind # "gen" }

\* Unmounting the panels: their suspended handlers keep running, but their
\* setState calls no longer reach a mounted component
Unmount(ts) == { IF t.kind = "gen" THEN t ELSE [t EXCEPT !.live = FALSE] : t \in ts }

\* Room for n more asynchronous operations, keeping one for the regeneration
\* each suspended panel handler may still launch
CanStart(n, reserved, max) == nextId + reserved + n <= max

\* Mutant of handleGarmentCategorized: the item is appended whatever its id
handleGarmentCategorizedAppending(item) == Append(wardrobe, item)

handleGarmentCategorized(item) ==
  IF \E i \in 1..Len(wardrobe) : wardrobe[i].id = item.id
  THEN wardrobe
  ELSE Append(wardrobe, item)

CustomId(t) == "custom-" \o ToString(t)

\* The image the data URL returned by handleApiResponse denotes
DataUrl(image) ==
  [kind |-> "data", mimeType |-> image.mimeType, data |-> image.data]

\* await generateCompositeImage(...): the remote answer classified, or the
\* rejection of the call
Settle(t, answer) ==
  IF answer = Thrown THEN Throw(Thrown) ELSE handleApiResponse(answer)

Answers(t) == Responses(t) \cup {Thrown}

handleStartOver ==
  /\ baseModelUrl' = Null
  /\ displayImageUrl' = Null
  /\ wornTop' = Null
  /\ wornBottom' = Null
  /\ currentExpression' = "Default"
  /\ currentBackground' = "Original Studio"
  /\ currentPoseIndex' = 0
  /\ pendingChanges' = Null
  /\ isLoading' = FALSE
  /\ loadingMessage' = ""
  /\ error' = Null
  /\ wardrobe' = defaultWardrobe
  /\ isCategorizing' = FALSE
  /\ isValidating' = NotValidating
  /\ wardrobeError' = Null
  /\ sceneError' = EmptyMessage
  /\ tasks' = Unmount(tasks)
  /\ UNCHANGED <<nextId, now, auxVars>>
  /\ settled' = Null

\* Canvas: the Start Over button of the dressing screen
StartOver ==
  /\ baseModelUrl # Null
  /\ handleStartOver

Init ==
  /\ baseModelUrl = Null
  /\ displayImageUrl = Null
  /\ wornTop = Null
  /\ wornBottom = Null
  /\ currentExpression = "Default"
  /\ currentBackground = "Original Studio"
  /\ currentPoseIndex = 0
  /\ pendingChanges = Null
  /\ isLoading = FALSE
  /\ loadingMessage = ""
  /\ error = Null
  /\ wardrobe = defaultWardrobe
  /\ isCategorizing = FALSE
  /\ isValidating = NotValidating
  /\ wardrobeError = Null
  /\ sceneError = EmptyMessage
  /\ tasks = {}
  /\ nextId = 0
  /\ now = 0
  /\ call = Null
  /\ settled = Null
  /\ design \in {"immediate", "staged"}

-----------------------------------------------------------------------------
(* The immediate-apply orchestrator, src/App.tsx *)

\* updateOutfit up to its await; done: the promises whose continuation makes
\* this call
updateOutfit(view, config, done) ==
  IF view.baseModelUrl = Null
  THEN /\ tasks' = tasks \ done
       /\ UNCHANGED <<error, isLoading, loadingMessage, nextId>>
  ELSE LET newTop == IF "top" \in DOMAIN config THEN config.top ELSE view.wornTop
           newBottom == IF "bottom" \in DOMAIN config THEN config.bottom
                        ELSE view.wornBottom
           newExpression == IF "expression" \in DOMAIN config THEN config.expression
                            ELSE view.currentExpression
           newBackground == IF "background" \in DOMAIN config THEN config.background
                            ELSE view.currentBackground
           newPoseIndex == IF "poseIndex" \in DOMAIN config THEN config.poseIndex
                           ELSE view.currentPoseIndex
       IN /\ error' = Null
          /\ isLoading' = TRUE
          /\ loadingMessage' = "Updating your look..."
          /\ nextId' = nextId + 1
          /\ tasks' = (tasks \ done) \cup
                        {GenTask(nextId + 1, view.baseModelUrl, newTop, newBottom,
                                 newExpression, newBackground, newPoseIndex)
                           @@ [config |-> DOMAIN config]}

\* updateOutfit: the statements after the await, on success
updateOutfitCommit(t, newImageUrl) ==
  /\ displayImageUrl' = newImageUrl
  /\ wornTop' = t.top
  /\ wornBottom' = t.bottom
  /\ currentExpression' = t.expression
  /\ currentBackground' = t.background
  /\ currentPoseIndex' = t.poseIndex
  /\ UNCHANGED error

\* Mutant of updateOutfitCatch: the failure path also syncs the worn state
updateOutfitCatchCommitting(t, err) ==
  /\ error' = getFriendlyErrorMessage(err, "Failed to update the image")
  /\ wornTop' = t.top
  /\ wornBottom' = t.bottom
  /\ currentExpression' = t.expression
  /\ currentBackground' = t.background
  /\ currentPoseIndex' = t.poseIndex
  /\ UNCHANGED displayImageUrl

\* updateOutfit: the catch block
updateOutfitCatch(t, err) ==
  /\ error' = getFriendlyErrorMessage(err, "Failed to update the image")
  /\ UNCHANGED <<displayImageUrl, committedVars>>

\* updateOutfit from its await on: try / catch / finally
\* Mutant of updateOutfitSettled: the busy flag and the loading message are
\* cleared at the end of the try block, not in a finally block
updateOutfitSettledClearingInTry(t, answer) ==
  LET result == Settle(t, answer)
  IN /\ t \in GenTasks
     /\ tasks' = tasks \ {t}
     /\ IF result.ok
        THEN /\ updateOutfitCommit(t, DataUrl(result.value))
             /\ isLoading' = FALSE
             /\ loadingMessage' = ""
        ELSE /\ updateOutfitCatch(t, result.error)
             /\ UNCHANGED <<isLoading, loadingMessage>>
     /\ settled' = [id |-> t.id,
                    outcome |-> IF result.ok THEN "Success" ELSE result.error.kind]
     /\ UNCHANGED <<baseModelUrl, pendingChanges, wardrobe, panelVars, nextId, now, design>>

updateOutfitSettled(t, answer) ==
  LET result == Settle(t, answer)
  IN /\ t \in GenTasks
     /\ tasks' = tasks \ {t}
     /\ IF result.ok
        THEN updateOutfitCommit(t, DataUrl(result.value))
        ELSE updateOutfitCatch(t, result.error)
     /\ isLoading' = FALSE
     /\ loadingMessage' = ""
     /\ settled' = [id |-> t.id,
                    outcome |-> IF result.ok THEN "Success" ELSE result.error.kind]
     /\ UNCHANGED <<baseModelUrl, pendingChanges, wardrobe, panelVars, nextId, now, design>>

handleModelFinalized(url) ==
  /\ baseModelUrl' = url
  /\ displayImageUrl' = url
  /\ UNCHANGED <<committedVars, pendingChanges, isLoading, loadingMessage, error,
                 wardrobe, panelVars, tasks, nextId, now, auxVars>>
  /\ settled' = Null

\* What a synchronous handler of App leaves alone besides updateOutfit's writes
AppFrame ==
  /\ UNCHANGED <<baseModelUrl, displayImageUrl, committedVars, pendingChanges,
                 wardrobe, panelVars, now, auxVars>>
  /\ settled' = Null

handleGarmentSelect(view, garmentInfo, done) ==
  IF garmentInfo.category = "top"
  THEN updateOutfit(view, [top |-> garmentInfo], done)
  ELSE updateOutfit(view, [bottom |-> garmentInfo], done)

handleRemoveGarment(category) ==
  IF category = "top"
  THEN updateOutfit(View, [top |-> Null], {})
  ELSE updateOutfit(View, [bottom |-> Null], {})

\* Mutant of Recolor: the requested color is stored as it comes
RecolorVerbatim(item, color) == [item EXCEPT !.activeColor = color]

\* { ...item, activeColor: isReverting ? undefined : color }
Recolor(item, color) ==
  LET isReverting == color = "original"
  IN [item EXCEPT !.activeColor = IF isReverting THEN Undefined ELSE color]

handleColorChange(category, color) ==
  IF category = "top" /\ wornTop # Null
  THEN updateOutfit(View, [top |-> Recolor(wornTop, color)], {})
  ELSE IF category = "bottom" /\ wornBottom # Null
  THEN updateOutfit(View, [bottom |-> Recolor(wornBottom, color)], {})
  ELSE UNCHANGED <<error, isLoading, loadingMessage, nextId, tasks>>

\* handleExpressionChange of the render whose closure is view
handleExpressionChange(view, expression, done) ==
  IF expression = view.currentExpression \/ view.isLoading
  THEN /\ tasks' = tasks \ done
       /\ UNCHANGED <<error, isLoading, loadingMessage, nextId>>
  ELSE updateOutfit(view, [expression |-> expression], done)

handleBackgroundChange(view, background, done) ==
  IF background = view.currentBackground \/ view.isLoading
  THEN /\ tasks' = tasks \ done
       /\ UNCHANGED <<error, isLoading, loadingMessage, nextId>>
  ELSE updateOutfit(view, [background |-> background], done)

handlePoseSelect(newIndex) ==
  IF isLoading \/ newIndex = currentPoseIndex
  THEN UNCHANGED <<error, isLoading, loadingMessage, nextId, tasks>>
  ELSE updateOutfit(View, [poseIndex |-> newIndex], {})

-----------------------------------------------------------------------------
(* WardrobePanel and ScenePanel, up to their awaits *)

\* WardrobePanel.handleGarmentClick up to await urlToFile; view is the closure
\* onGarmentSelect was created in
handleGarmentClick(item, wornTopId, wornBottomId, view, reserved, max) ==
  LET isWorn == \/ (item.category = "top" /\ item.id = wornTopId)
                \/ (item.category = "bottom" /\ item.id = wornBottomId)
  IN /\ ~(isLoading \/ isWorn)
     /\ CanStart(1, reserved, max)
     /\ nextId' = nextId + 1
     /\ tasks' = tasks \cup {[kind |-> "load", id |-> nextId + 1, item |-> item,
                              view |-> view, live |-> TRUE]}
     /\ wardrobeError' = Null
     /\ UNCHANGED <<baseModelUrl, displayImageUrl, committedVars, pendingChanges,
                    isLoading, loadingMessage, error, wardrobe, isCategorizing,
                    isValidating, sceneError, now, auxVars>>
     /\ settled' = Null

\* WardrobePanel.handleFileChange up to await categorizeGarment, for an image
\* file; the input is disabled while isLoading or isCategorizing
handleFileChange(view, reserved, max) ==
  /\ ~(isLoading \/ isCategorizing)
  /\ CanStart(1, reserved, max)
  /\ wardrobeError' = Null
  /\ isCategorizing' = TRUE
  /\ nextId' = nextId + 1
  /\ tasks' = tasks \cup {[kind |-> "cat", id |-> nextId + 1, view |-> view,
                           live |-> TRUE]}
  /\ UNCHANGED <<baseModelUrl, displayImageUrl, committedVars, pendingChanges,
                 isLoading, loadingMessage, error, wardrobe, isValidating,
                 sceneError, now, auxVars>>
  /\ settled' = Null

\* ScenePanel.handleCustomSubmit up to await validateInput; the Apply button is
\* disabled while isLoading or isValidating
handleCustomSubmit(type, value, view, reserved, max) ==
  /\ ~(isLoading \/ isValidating # NotValidating)
  /\ CanStart(1, reserved, max)
  /\ sceneError' = EmptyMessage
  /\ isValidating' = type
  /\ nextId' = nextId + 1
  /\ tasks' = tasks \cup {[kind |-> "val", id |-> nextId + 1, type |-> type,
                           value |-> value, view |-> view, live |-> TRUE]}
  /\ UNCHANGED <<baseModelUrl, displayImageUrl, committedVars, pendingChanges,
                 isLoading, loadingMessage, error, wardrobe, isCategorizing,
                 wardrobeError, now, auxVars>>
  /\ settled' = Null

\* WardrobePanel: the message of the catch block of handleGarmentClick
LoadFailedMessage == [kind |-> "message", context |-> "Failed to load wardrobe item"]

\* ScenePanel: `'${value}' is not a valid ${type}. Please try another.`
InvalidMessage(value, type) ==
  [kind |-> "message", context |-> "is not a valid", value |-> value, type |-> type]

\* ScenePanel: getFriendlyErrorMessage(err, `Failed to validate ${type}`)
ValidationFailedMessage(err, type) ==
  [getFriendlyErrorMessage(err, "Failed to validate") EXCEPT !.context = <<@, type>>]

\* setError of a panel: lost when the panel is no longer mounted
SetPanelError(live, current, message) == IF live THEN message ELSE current

\* The custom item handleFileChange builds once the category is known
customGarmentInfo(category, time) == Item(CustomId(time), category, Undefined)

-----------------------------------------------------------------------------
(* Immediate-apply: continuations of the panel handlers *)

\* Suspended panel handlers, each of which may still call updateOutfit
Launchers == Cardinality(PanelTasks)

handleGarmentClickSettled(t, loaded) ==
  /\ t \in tasks /\ t.kind = "load"
  /\ IF loaded
     THEN /\ handleGarmentSelect(t.view, t.item, {t})
          /\ UNCHANGED wardrobeError
     ELSE /\ tasks' = tasks \ {t}
          /\ wardrobeError' = SetPanelError(t.live, wardrobeError, LoadFailedMessage)
          /\ UNCHANGED <<error, isLoading, loadingMessage, nextId>>
  /\ UNCHANGED <<baseModelUrl, displayImageUrl, committedVars, pendingChanges,
                 wardrobe, isCategorizing, isValidating, sceneError, now, auxVars>>
  /\ settled' = Null

handleFileChangeSettled(t, answer, time) ==
  LET result == IF answer = Thrown THEN Throw(Thrown) ELSE categorizeGarment(answer)
  IN /\ t \in tasks /\ t.kind = "cat"
     /\ now' = time
     /\ IF result.ok
        THEN /\ wardrobe' = handleGarmentCategorized(customGarmentInfo(result.value, time))
             /\ handleGarmentSelect(t.view, customGarmentInfo(result.value, time), {t})
             /\ UNCHANGED wardrobeError
        ELSE /\ tasks' = tasks \ {t}
             /\ wardrobeError' =
                  SetPanelError(t.live, wardrobeError,
                                getFriendlyErrorMessage(result.error,
                                                        "Failed to categorize garment"))
             /\ UNCHANGED <<wardrobe, error, isLoading, loadingMessage, nextId>>
     /\ isCategorizing' = IF t.live THEN FALSE ELSE isCategorizing
     /\ UNCHANGED <<baseModelUrl, displayImageUrl, committedVars, pendingChanges,
                    isValidating, sceneError, design>>
     /\ settled' = Null

handleCustomSubmitSettled(t, answer) ==
  /\ t \in tasks /\ t.kind = "val"
  /\ IF answer = Thrown
     THEN /\ tasks' = tasks \ {t}
          /\ sceneError' = SetPanelError(t.live, sceneError,
                                         ValidationFailedMessage(Thrown, t.type))
          /\ UNCHANGED <<error, isLoading, loadingMessage, nextId>>
     ELSE IF validateInput(answer)
     THEN /\ IF t.type = "expression"
             THEN handleExpressionChange(t.view, t.value, {t})
             ELSE handleBackgroundChange(t.view, t.value, {t})
          /\ UNCHANGED sceneError
     ELSE /\ tasks' = tasks \ {t}
          /\ sceneError' = SetPanelError(t.live, sceneError,
                                         InvalidMessage(t.value, t.type))
          /\ UNCHANGED <<error, isLoading, loadingMessage, nextId>>
  /\ isValidating' = IF t.live THEN NotValidating ELSE isValidating
  /\ UNCHANGED <<baseModelUrl, displayImageUrl, committedVars, pendingChanges,
                 wardrobe, isCategorizing, wardrobeError, now, design>>
     /\ settled' = Null

-----------------------------------------------------------------------------
(* Immediate-apply: the user's and the environment's steps *)

\* Room for one more regeneration launched straight from a click
CanLaunch == CanStart(1, Launchers, MaxTasks)

ModelFinalized ==
  /\ design = "immediate"
  /\ baseModelUrl = Null
  /\ \E url \in ModelUrls : handleModelFinalized(url)

ClickGarment ==
  /\ design = "immediate"
  /\ baseModelUrl # Null
  /\ \E item \in GarmentChoices :
       handleGarmentClick(item, IdOf(wornTop), IdOf(wornBottom), View, Launchers + 1, MaxTasks)

UploadGarment ==
  /\ design = "immediate"
  /\ baseModelUrl # Null
  /\ handleFileChange(View, Launchers + 1, MaxTasks)

\* CurrentOutfitPanel: the remove button of a filled slot
ClickRemove ==
  /\ design = "immediate"
  /\ baseModelUrl # Null /\ ~isLoading /\ CanLaunch
  /\ \E category \in {"top", "bottom"} :
       /\ (IF category = "top" THEN wornTop ELSE wornBottom) # Null
       /\ handleRemoveGarment(category)
  /\ AppFrame

\* CurrentOutfitPanel: the color swatches of a filled slot
ClickColor ==
  /\ design = "immediate"
  /\ baseModelUrl # Null /\ ~isLoading /\ CanLaunch
  /\ \E category \in {"top", "bottom"}, color \in ColorChoices :
       /\ (IF category = "top" THEN wornTop ELSE wornBottom) # Null
       /\ handleColorChange(category, color)
  /\ AppFrame

\* ScenePanel: a preset button
ClickExpression ==
  /\ design = "immediate"
  /\ baseModelUrl # Null /\ ~isLoading /\ CanLaunch
  /\ \E expression \in ExpressionChoices :
       /\ handleExpressionChange(View, expression, {})
       /\ AppFrame

ClickBackground ==
  /\ design = "immediate"
  /\ baseModelUrl # Null /\ ~isLoading /\ CanLaunch
  /\ \E background \in BackgroundChoices :
       /\ handleBackgroundChange(View, background, {})
       /\ AppFrame

SubmitCustom ==
  /\ design = "immediate"
  /\ baseModelUrl # Null
  /\ \E type \in {"expression", "background"} : \E value \in CustomTexts[type] :
       handleCustomSubmit(type, value, View, Launchers + 1, MaxTasks)

\* Canvas: the pose controls
ClickPose ==
  /\ design = "immediate"
  /\ baseModelUrl # Null /\ CanLaunch
  /\ \E newIndex \in PoseChoices : handlePoseSelect(newIndex)
  /\ AppFrame

GarmentLoaded ==
  /\ design = "immediate"
  /\ \E t \in tasks : \E loaded \in BOOLEAN : handleGarmentClickSettled(t, loaded)

GarmentCategorized ==
  /\ design = "immediate"
  /\ \E t \in tasks : \E answer \in CategoryAnswers \cup {Thrown} :
     \E time \in now..MaxClock : handleFileChangeSettled(t, answer, time)
  /\ UNCHANGED call

InputValidated ==
  /\ design = "immediate"
  /\ \E t \in tasks : \E answer \in ValidationAnswers \cup {Thrown} :
     handleCustomSubmitSettled(t, answer)
  /\ UNCHANGED call

CompositeSettled ==
  /\ design = "immediate"
  /\ \E t \in GenTasks : \E answer \in Answers(t) : updateOutfitSettled(t, answer)
  /\ UNCHANGED call


-----------------------------------------------------------------------------
(* The staged orchestrator, src/unnamed/part_002 *)

OutfitFields == {"top", "bottom", "expression", "background", "poseIndex"}

initialState ==
  [top |-> Null, bottom |-> Null, expression |-> "Default",
   background |-> "Original Studio", poseIndex |-> 0]

\* Mutant of handlePendingChange: the fields the update does not name go
\* back to their initial values
handlePendingChangeResetting(prev, updates) ==
  IF prev # Null
  THEN [f \in OutfitFields |->
          IF f \in DOMAIN updates THEN updates[f] ELSE initialState[f]]
  ELSE Null

\* The updater of handlePendingChange: prev ? { ...prev, ...updates } : null
handlePendingChange(prev, updates) ==
  IF prev # Null
  THEN [f \in DOMAIN prev \cup DOMAIN updates |->
          IF f \in DOMAIN updates THEN updates[f] ELSE prev[f]]
  ELSE Null

\* Mutant of hasPendingChangesOf: the garments are compared by id alone
hasPendingChangesOfById(pending, top, bottom, expression, background, poseIndex) ==
  IF pending = Null THEN FALSE
  ELSE \/ IdOf(pending.top) # IdOf(top)
       \/ IdOf(pending.bottom) # IdOf(bottom)
       \/ pending.expression # expression
       \/ pending.background # background
       \/ pending.poseIndex # poseIndex

\* useMemo hasPendingChanges, as a function of the state it depends on
hasPendingChangesOf(pending, top, bottom, expression, background, poseIndex) ==
  IF pending = Null THEN FALSE
  ELSE LET topChanged == \/ IdOf(pending.top) # IdOf(top)
                         \/ ActiveColorOf(pending.top) # ActiveColorOf(top)
           bottomChanged == \/ IdOf(pending.bottom) # IdOf(bottom)
                            \/ ActiveColorOf(pending.bottom) # ActiveColorOf(bottom)
           expressionChanged == pending.expression # expression
           backgroundChanged == pending.background # background
           poseChanged == pending.poseIndex # poseIndex
       IN topChanged \/ bottomChanged \/ expressionChanged \/ backgroundChanged
            \/ poseChanged

hasPendingChanges ==
  hasPendingChangesOf(pendingChanges, wornTop, wornBottom, currentExpression,
                      currentBackground, currentPoseIndex)

\* What a synchronous edit handler of the staged App leaves alone
StagedFrame ==
  /\ UNCHANGED <<baseModelUrl, displayImageUrl, committedVars, isLoading,
                 loadingMessage, error, wardrobe, panelVars, nextId, now, auxVars>>
  /\ settled' = Null

handleModelFinalizedStaged(url) ==
  /\ baseModelUrl' = url
  /\ displayImageUrl' = url
  /\ wornTop' = initialState.top
  /\ wornBottom' = initialState.bottom
  /\ currentExpression' = initialState.expression
  /\ currentBackground' = initialState.background
  /\ currentPoseIndex' = initialState.poseIndex
  /\ pendingChanges' = initialState
  /\ UNCHANGED <<isLoading, loadingMessage, error, wardrobe, panelVars, tasks,
                 nextId, now, auxVars>>
  /\ settled' = Null

\* handleApplyChanges up to its await
handleApplyChanges ==
  IF baseModelUrl = Null \/ pendingChanges = Null
  THEN UNCHANGED <<error, isLoading, loadingMessage, nextId, tasks>>
  ELSE /\ error' = Null
       /\ isLoading' = TRUE
       /\ loadingMessage' = "Applying your changes..."
       /\ nextId' = nextId + 1
       /\ tasks' = tasks \cup
                     {GenTask(nextId + 1, baseModelUrl, pendingChanges.top,
                              pendingChanges.bottom, pendingChanges.expression,
                              pendingChanges.background, pendingChanges.poseIndex)}

\* handleApplyChanges: the statements after the await, on success
handleApplyChangesCommit(t, newImageUrl) ==
  /\ displayImageUrl' = newImageUrl
  /\ wornTop' = t.top
  /\ wornBottom' = t.bottom
  /\ currentExpression' = t.expression
  /\ currentBackground' = t.background
  /\ currentPoseIndex' = t.poseIndex
  /\ UNCHANGED error

\* handleApplyChanges: the catch block
handleApplyChangesCatch(t, err) ==
  /\ error' = getFriendlyErrorMessage(err, "Failed to update the image")
  /\ UNCHANGED <<displayImageUrl, committedVars>>

\* handleApplyChanges from its await on: try / catch / finally
handleApplyChangesSettled(t, answer) ==
  LET result == Settle(t, answer)
  IN /\ t \in GenTasks
     /\ tasks' = tasks \ {t}
     /\ IF result.ok
        THEN handleApplyChangesCommit(t, DataUrl(result.value))
        ELSE handleApplyChangesCatch(t, result.error)
     /\ isLoading' = FALSE
     /\ loadingMessage' = ""
     /\ settled' = [id |-> t.id,
                    outcome |-> IF result.ok THEN "Success" ELSE result.error.kind]
     /\ UNCHANGED <<baseModelUrl, pendingChanges, wardrobe, panelVars, nextId, now,
                    design>>

handleGarmentSelectStaged(garmentInfo) ==
  IF garmentInfo.category = "top"
  THEN pendingChanges' = handlePendingChange(pendingChanges, [top |-> garmentInfo])
  ELSE pendingChanges' = handlePendingChange(pendingChanges, [bottom |-> garmentInfo])

handleRemoveGarmentStaged(category) ==
  IF category = "top"
  THEN pendingChanges' = handlePendingChange(pendingChanges, [top |-> Null])
  ELSE pendingChanges' = handlePendingChange(pendingChanges, [bottom |-> Null])

\* Mutant of handleColorChangeStaged: a color for an empty slot falls through
\* to the other garment
handleColorChangeStagedFallingThrough(category, color) ==
  IF pendingChanges = Null THEN UNCHANGED pendingChanges
  ELSE IF category = "top" /\ pendingChanges.top # Null
  THEN pendingChanges' =
         handlePendingChange(pendingChanges,
                             [top |-> Recolor(pendingChanges.top, color)])
  ELSE IF pendingChanges.bottom # Null
  THEN pendingChanges' =
         handlePendingChange(pendingChanges,
                             [bottom |-> Recolor(pendingChanges.bottom, color)])
  ELSE UNCHANGED pendingChanges

handleColorChangeStaged(category, color) ==
  IF pendingChanges = Null THEN UNCHANGED pendingChanges
  ELSE IF category = "top" /\ pendingChanges.top # Null
  THEN pendingChanges' =
         handlePendingChange(pendingChanges,
                             [top |-> Recolor(pendingChanges.top, color)])
  ELSE IF category = "bottom" /\ pendingChanges.bottom # Null
  THEN pendingChanges' =
         handlePendingChange(pendingChanges,
                             [bottom |-> Recolor(pendingChanges.bottom, color)])
  ELSE UNCHANGED pendingChanges

-----------------------------------------------------------------------------
(* Staged: continuations of the panel handlers *)

PanelSettledFrame ==
  /\ UNCHANGED <<baseModelUrl, displayImageUrl, committedVars, isLoading,
                 loadingMessage, error, nextId, design>>
  /\ settled' = Null

handleGarmentClickSettledStaged(t, loaded) ==
  /\ t \in tasks /\ t.kind = "load"
  /\ tasks' = tasks \ {t}
  /\ IF loaded
     THEN handleGarmentSelectStaged(t.item) /\ UNCHANGED wardrobeError
     ELSE /\ wardrobeError' = SetPanelError(t.live, wardrobeError, LoadFailedMessage)
          /\ UNCHANGED pendingChanges
  /\ PanelSettledFrame
  /\ UNCHANGED <<wardrobe, isCategorizing, isValidating, sceneError, now>>

handleFileChangeSettledStaged(t, answer, time) ==
  LET result == IF answer = Thrown THEN Throw(Thrown) ELSE categorizeGarment(answer)
  IN /\ t \in tasks /\ t.kind = "cat"
     /\ tasks' = tasks \ {t}
     /\ now' = time
     /\ IF result.ok
        THEN /\ wardrobe' = handleGarmentCategorized(customGarmentInfo(result.value, time))
             /\ handleGarmentSelectStaged(customGarmentInfo(result.value, time))
             /\ UNCHANGED wardrobeError
        ELSE /\ wardrobeError' =
                  SetPanelError(t.live, wardrobeError,
                                getFriendlyErrorMessage(result.error,
                                                        "Failed to categorize garment"))
             /\ UNCHANGED <<wardrobe, pendingChanges>>
     /\ isCategorizing' = IF t.live THEN FALSE ELSE isCategorizing
     /\ PanelSettledFrame
     /\ UNCHANGED <<isValidating, sceneError>>

handleCustomSubmitSettledStaged(t, answer) ==
  /\ t \in tasks /\ t.kind = "val"
  /\ tasks' = tasks \ {t}
  /\ IF answer = Thrown
     THEN /\ sceneError' = SetPanelError(t.live, sceneError,
                                         ValidationFailedMessage(Thrown, t.type))
          /\ UNCHANGED pendingChanges
     ELSE IF validateInput(answer)
     THEN /\ IF t.type = "expression"
             THEN pendingChanges' =
                    handlePendingChange(pendingChanges, [expression |-> t.value])
             ELSE pendingChanges' =
                    handlePendingChange(pendingChanges, [background |-> t.value])
          /\ UNCHANGED sceneError
     ELSE /\ sceneError' = SetPanelError(t.live, sceneError,
                                         InvalidMessage(t.value, t.type))
          /\ UNCHANGED pendingChanges
  /\ isValidating' = IF t.live THEN NotValidating ELSE isValidating
  /\ PanelSettledFrame
  /\ UNCHANGED <<wardrobe, isCategorizing, wardrobeError, now>>

-----------------------------------------------------------------------------
(* Staged: the user's and the environment's steps *)

\* pendingChanges?.top ?? null
PendingSlot(category) ==
  IF pendingChanges = Null THEN Null
  ELSE IF category = "top" THEN pendingChanges.top ELSE pendingChanges.bottom

ModelFinalizedStaged ==
  /\ design = "staged"
  /\ baseModelUrl = Null
  /\ \E url \in ModelUrls : handleModelFinalizedStaged(url)

ClickGarmentStaged ==
  /\ design = "staged"
  /\ baseModelUrl # Null
  /\ \E item \in GarmentChoices :
       handleGarmentClick(item, IdOf(PendingSlot("top")), IdOf(PendingSlot("bottom")),
                          Null, 0, MaxStagedTasks)

UploadGarmentStaged ==
  /\ design = "staged"
  /\ baseModelUrl # Null
  /\ handleFileChange(Null, 0, MaxStagedTasks)

ClickRemoveStaged ==
  /\ design = "staged"
  /\ baseModelUrl # Null /\ ~isLoading
  /\ \E category \in {"top", "bottom"} :
       /\ PendingSlot(category) # Null
       /\ handleRemoveGarmentStaged(category)
  /\ StagedFrame
  /\ UNCHANGED tasks

ClickColorStaged ==
  /\ design = "staged"
  /\ baseModelUrl # Null /\ ~isLoading
  /\ \E category \in {"top", "bottom"}, color \in ColorChoices :
       /\ PendingSlot(category) # Null
       /\ handleColorChangeStaged(category, color)
  /\ StagedFrame
  /\ UNCHANGED tasks

ClickExpressionStaged ==
  /\ design = "staged"
  /\ baseModelUrl # Null /\ ~isLoading
  /\ \E exp \in ExpressionChoices :
       pendingChanges' = handlePendingChange(pendingChanges, [expression |-> exp])
  /\ StagedFrame
  /\ UNCHANGED tasks

ClickBackgroundStaged ==
  /\ design = "staged"
  /\ baseModelUrl # Null /\ ~isLoading
  /\ \E bg \in BackgroundChoices :
       pendingChanges' = handlePendingChange(pendingChanges, [background |-> bg])
  /\ StagedFrame
  /\ UNCHANGED tasks

SubmitCustomStaged ==
  /\ design = "staged"
  /\ baseModelUrl # Null
  /\ \E type \in {"expression", "background"} : \E value \in CustomTexts[type] :
       handleCustomSubmit(type, value, Null, 0, MaxStagedTasks)

\* PosePanel: one button per entry of poseInstructions
ClickPoseStaged ==
  /\ design = "staged"
  /\ baseModelUrl # Null /\ ~isLoading
  /\ \E index \in PoseChoices :
       pendingChanges' = handlePendingChange(pendingChanges, [poseIndex |-> index])
  /\ StagedFrame
  /\ UNCHANGED tasks

\* The Generate Image button, rendered iff hasPendingChanges && !isLoading
ClickGenerate ==
  /\ design = "staged"
  /\ baseModelUrl # Null
  /\ hasPendingChanges /\ ~isLoading
  /\ CanStart(1, 0, MaxStagedTasks)
  /\ handleApplyChanges
  /\ UNCHANGED <<baseModelUrl, displayImageUrl, committedVars, pendingChanges,
                 wardrobe, panelVars, now, auxVars>>
  /\ settled' = Null

GarmentLoadedStaged ==
  /\ design = "staged"
  /\ \E t \in tasks : \E loaded \in BOOLEAN : handleGarmentClickSettledStaged(t, loaded)
  /\ UNCHANGED call

GarmentCategorizedStaged ==
  /\ design = "staged"
  /\ \E t \in tasks : \E answer \in CategoryAnswers \cup {Thrown} :
     \E time \in now..MaxClock : handleFileChangeSettledStaged(t, answer, time)
  /\ UNCHANGED call

InputValidatedStaged ==
  /\ design = "staged"
  /\ \E t \in tasks : \E answer \in ValidationAnswers \cup {Thrown} :
     handleCustomSubmitSettledStaged(t, answer)
  /\ UNCHANGED call

CompositeSettledStaged ==
  /\ design = "staged"
  /\ \E t \in GenTasks : \E answer \in Answers(t) : handleApplyChangesSettled(t, answer)
  /\ UNCHANGED call

Next ==
  \/ StartOver
  \/ ModelFinalized
  \/ ClickGarment
  \/ UploadGarment
  \/ ClickRemove
  \/ ClickColor
  \/ ClickExpression
  \/ ClickBackground
  \/ SubmitCustom
  \/ ClickPose
  \/ GarmentLoaded
  \/ GarmentCategorized
  \/ InputValidated
  \/ CompositeSettled
  \/ ModelFinalizedStaged
  \/ ClickGarmentStaged
  \/ UploadGarmentStaged
  \/ ClickRemoveStaged
  \/ ClickColorStaged
  \/ ClickExpressionStaged
  \/ ClickBackgroundStaged
  \/ SubmitCustomStaged
  \/ ClickPoseStaged
  \/ ClickGenerate
  \/ GarmentLoadedStaged
  \/ GarmentCategorizedStaged
  \/ InputValidatedStaged
  \/ CompositeSettledStaged

Spec == Init /\ [][Next]_vars

-----------------------------------------------------------------------------
(* Properties of the orchestrators *)

Immediate == design = "immediate"
Staged == design = "staged"

\* C1: at most one regeneration is in flight at any time: no
\* generateCompositeImage call is pending while another one is
AtMostOneInFlight == Cardinality(GenTasks) <= 1

\* The outcomes of a regeneration that are failures
Failures == {"Blocked", "Refused", "Empty", "thrown"}

\* C2: a failed regeneration never commits: when the outcome handled is a
\* block, a refusal, an empty response or a thrown failure, the committed
\* outfit and the displayed image keep their values and the error field is set
FailedRegenerationNeverCommits ==
  [][(settled' # Null /\ settled'.outcome \in Failures) =>
        /\ Committed' = Committed
        /\ displayImageUrl' = displayImageUrl
        /\ error' # Null]_vars

\* C2, witness: a refusal was handled while a regenerated look is displayed
FailedRegenerationHandled ==
  /\ settled # Null
  /\ settled.outcome = "Refused"
  /\ error # Null
  /\ displayImageUrl # baseModelUrl /\ displayImageUrl # Null

\* C3: in the staged design, in the state right after a successful
\* regeneration is applied, pending and committed are equal: hasPendingChanges
\* is false
PendingEqualsCommittedAfterSuccess ==
  [][(Staged /\ settled' # Null /\ settled'.outcome = "Success") =>
        ~hasPendingChanges']_vars

\* C4: outcomes are applied in the order the requests were issued: when the
\* outcome of a regeneration is handled, no regeneration launched before it is
\* still in flight
OutcomesAppliedInLaunchOrder ==
  [][settled' # Null => \A t \in GenTasks : t.id >= settled'.id]_vars

\* C5: whenever isLoading is false, no composite generation call is in flight
IdleMeansNothingInFlight == ~isLoading => GenTasks = {}

\* C6: in the staged design no edit is staged while busy: as long as a
\* regeneration is in flight and the busy flag is up, no step of the session
\* changes the pending state
NoStagingWhileBusy ==
  [][(Staged /\ isLoading /\ GenTasks # {} /\ baseModelUrl' = baseModelUrl) =>
        pendingChanges' = pendingChanges]_vars

\* The request the displayed image is the rendering of
DisplayedRequest == displayImageUrl.data.of

\* C7: commit is all-or-nothing: either the displayed image is the base model
\* image and the five committed fields hold their initial values, or the
\* displayed image and the five committed fields all come from one request
CommitIsAllOrNothing ==
  \/ /\ displayImageUrl = baseModelUrl
     /\ Committed = initialState
  \/ /\ displayImageUrl # Null
     /\ displayImageUrl.kind = "data"
     /\ wornTop = DisplayedRequest.top
     /\ wornBottom = DisplayedRequest.bottom
     /\ currentExpression = DisplayedRequest.expression
     /\ currentBackground = DisplayedRequest.background
     /\ PoseText(currentPoseIndex) = DisplayedRequest.poseInstruction

-----------------------------------------------------------------------------
(* The change stager on its own: hasPendingChanges, handlePendingChange and   *)
(* handleColorChange applied to every outfit of the bounded input space       *)

Colorings == {Undefined} \cup (ColorChoices \ {"original"})

Worn(items) ==
  {Null} \cup { [item EXCEPT !.activeColor = c] : item \in items, c \in Colorings }

TopValues == Worn(Prefix(SelectSeq(defaultWardrobe, IsTop), MaxTopChoices))
BottomValues == Worn(Prefix(SelectSeq(defaultWardrobe, IsBottom), MaxBottomChoices))
ExpressionValues == ExpressionChoices \cup CustomTexts.expression
BackgroundValues == BackgroundChoices \cup CustomTexts.background

\* Every outfit the user can stage or commit with the bounded inputs
Outfits ==
  [top : TopValues, bottom : BottomValues, expression : ExpressionValues,
   background : BackgroundValues, poseIndex : PoseChoices]

\* Every partial update of an outfit
Patches ==
  { [f \in D |-> o[f]] :
      o \in Outfits,
      D \in { F \in SUBSET OutfitFields : Cardinality(F) <= MaxPatchFields } }

\* The colors a swatch passes, and strings that are no swatch
ColorInputs == ColorChoices \cup {"Original", "teal", ""}

InitHarness(pendings, outfits) ==
  /\ design \in {"immediate", "staged"}
  /\ \E committed \in outfits :
       /\ wornTop = committed.top
       /\ wornBottom = committed.bottom
       /\ currentExpression = committed.expression
       /\ currentBackground = committed.background
       /\ currentPoseIndex = committed.poseIndex
  /\ pendingChanges \in IF Staged THEN pendings ELSE {Null}
  /\ baseModelUrl \in IF Staged /\ pendingChanges = Null THEN {Null} ELSE ModelUrls
  /\ displayImageUrl = baseModelUrl
  /\ isLoading = FALSE
  /\ loadingMessage = ""
  /\ error = Null
  /\ wardrobe = defaultWardrobe
  /\ isCategorizing = FALSE
  /\ isValidating = NotValidating
  /\ wardrobeError = Null
  /\ sceneError = EmptyMessage
  /\ tasks = {}
  /\ nextId = 0
  /\ now = 0
  /\ call = Null
  /\ settled = Null

HarnessFrame ==
  /\ UNCHANGED <<baseModelUrl, displayImageUrl, committedVars, wardrobe, panelVars,
                 now, design>>
  /\ settled' = Null

\* The diff: every pending / committed pair
InitDiff == Staged /\ InitHarness(Outfits, Outfits)

EvalHasPendingChanges ==
  /\ call = Null
  /\ call' = [op |-> "hasPendingChanges", result |-> hasPendingChanges]
  /\ HarnessFrame
  /\ UNCHANGED <<pendingChanges, error, isLoading, loadingMessage, nextId, tasks>>

NextDiff == EvalHasPendingChanges

SpecDiff == InitDiff /\ [][NextDiff]_vars

\* The stager: every pending value, and every pair of worn garments
InitialOutfits ==
  { o \in Outfits : /\ o.expression = initialState.expression
                    /\ o.background = initialState.background
                    /\ o.poseIndex = initialState.poseIndex }

InitStager ==
  /\ InitHarness(Outfits \cup {Null}, InitialOutfits)
  /\ Staged => Committed = initialState

\* The harness has applied the operation named
Called(op) == call # Null /\ call.op = op

\* One partial update, applied once and then once more
ApplyPendingChange ==
  /\ Staged
  /\ call = Null \/ (Called("handlePendingChange") /\ ~call.again)
  /\ \E updates \in IF call = Null THEN Patches ELSE {call.updates} :
       /\ pendingChanges' = handlePendingChange(pendingChanges, updates)
       /\ call' = [op |-> "handlePendingChange", prev |-> pendingChanges,
                   updates |-> updates, again |-> call # Null]
  /\ HarnessFrame
  /\ UNCHANGED <<error, isLoading, loadingMessage, nextId, tasks>>

ApplyColorChangeStaged ==
  /\ Staged
  /\ call = Null \/ Called("handleColorChange")
  /\ \E category \in {"top", "bottom"}, color \in ColorInputs :
       /\ handleColorChangeStaged(category, color)
       /\ call' = [op |-> "handleColorChange", prev |-> pendingChanges,
                   category |-> category, color |-> color]
  /\ HarnessFrame
  /\ UNCHANGED <<error, isLoading, loadingMessage, nextId, tasks>>

ApplyColorChange ==
  /\ Immediate
  /\ call = Null
  /\ \E category \in {"top", "bottom"}, color \in ColorInputs :
       /\ handleColorChange(category, color)
       /\ call' = [op |-> "handleColorChange", prev |-> Committed,
                   category |-> category, color |-> color]
  /\ HarnessFrame
  /\ UNCHANGED pendingChanges

NextStager ==
  \/ ApplyPendingChange
  \/ ApplyColorChangeStaged
  \/ ApplyColorChange

SpecStager == InitStager /\ [][NextStager]_vars

-----------------------------------------------------------------------------
(* Properties of the change stager *)

Differs(a, b) == a # b

\* The reference diff of a pending and a committed outfit
GarmentDiffers(p, c) ==
  IF p = Null \/ c = Null
  THEN ~(p = Null /\ c = Null)
  ELSE Differs(p.id, c.id) \/ Differs(p.activeColor, c.activeColor)

DiffReference(p, c) ==
  \/ GarmentDiffers(p.top, c.top)
  \/ GarmentDiffers(p.bottom, c.bottom)
  \/ Differs(p.expression, c.expression)
  \/ Differs(p.background, c.background)
  \/ Differs(p.poseIndex, c.poseIndex)

\* C8: hasPendingChanges is true exactly when the pending and the committed
\* outfit differ in top identity, top active color, bottom identity, bottom
\* active color, expression, background or pose index; two empty slots are
\* equal, a garment against an empty slot or another garment is a difference
DiffEqualsReference ==
  Called("hasPendingChanges") =>
    call.result = DiffReference(pendingChanges, Committed)

\* C8, witness: the diff of a pair that differs only in the color of the top,
\* and is reported as a difference
DiffOfRecoloredTop ==
  /\ Called("hasPendingChanges")
  /\ call.result
  /\ wornTop # Null /\ pendingChanges.top # Null
  /\ pendingChanges.top.id = wornTop.id
  /\ pendingChanges.top.activeColor # wornTop.activeColor
  /\ [pendingChanges EXCEPT !.top = wornTop] = Committed

\* The outfit that replaces in prev exactly the fields updates names
Patched(prev, updates) ==
  [f \in OutfitFields |->
     IF f \in DOMAIN updates THEN updates[f] ELSE prev[f]]

\* C9: handlePendingChange replaces exactly the fields the update names and
\* keeps every other pending field, so the same update applied a second time
\* leaves the pending value as the first application made it
StagePatchReplacesNamedFields ==
  Called("handlePendingChange") =>
    /\ call.prev = Null => pendingChanges = Null
    /\ call.prev # Null =>
         /\ DOMAIN pendingChanges = OutfitFields
         /\ pendingChanges = Patched(call.prev, call.updates)
    /\ call.again => pendingChanges = call.prev

\* C9, witness: an update of two fields applied a second time, to a pending
\* outfit the first application changed
StagePatchAppliedTwice ==
  /\ Called("handlePendingChange")
  /\ call.again
  /\ DOMAIN call.updates = {"top", "poseIndex"}
  /\ pendingChanges # Null
  /\ pendingChanges.top # Null
  /\ pendingChanges.bottom # Null
  /\ pendingChanges.expression # initialState.expression
  /\ pendingChanges = call.prev

\* The garments a color change has put in the slot it names: the pending slot
\* of the staged App, the slot of the request of the immediate App
Recolored ==
  IF Staged THEN {pendingChanges[call.category]}
  ELSE { t[call.category] : t \in GenTasks }

\* C10: a color change on a worn garment yields a garment of the same identity
\* whose active color is unset for the color "original" and is the requested
\* string otherwise; "original" is never stored as a color
ColorChangeKeepsIdentity ==
  (Called("handleColorChange") /\ call.prev # Null
     /\ call.prev[call.category] # Null) =>
    /\ Recolored # {}
    /\ \A item \in Recolored :
         /\ item # Null
         /\ item.id = call.prev[call.category].id
         /\ item.category = call.prev[call.category].category
         /\ item.activeColor =
              (IF call.color = "original" THEN Undefined ELSE call.color)
         /\ item.activeColor # "original"

\* C10, witness: a colored bottom reverted with "original"
ColoredBottomReverted ==
  /\ Called("handleColorChange")
  /\ call.category = "bottom" /\ call.color = "original"
  /\ call.prev # Null /\ call.prev.bottom # Null
  /\ call.prev.bottom.activeColor # Undefined
  /\ \E item \in Recolored : item # Null /\ item.activeColor = Undefined

\* The slot a recorded color change names was empty when it was applied
EmptySlotColored ==
  /\ Called("handleColorChange")
  /\ call.prev = Null \/ call.prev[call.category] = Null

\* C11: a color change for a category whose slot is empty is a no-op: the
\* pending and the committed outfit, the displayed image and the error keep
\* their values, the slot stays empty and no regeneration is launched
EmptySlotColorChangeIsNoOp ==
  [][EmptySlotColored' =>
       /\ UNCHANGED <<pendingChanges, committedVars, baseModelUrl, displayImageUrl,
                      error, isLoading, loadingMessage, tasks, nextId>>
       /\ Immediate => (IF call'.category = "top" THEN wornTop' ELSE wornBottom') = Null
       /\ (Staged /\ pendingChanges' # Null) =>
            pendingChanges'[call'.category] = Null]_vars

\* C11, witness: a color was applied to the empty top slot while a bottom is
\* worn, and the bottom was left as it was
EmptyTopSlotColored ==
  /\ EmptySlotColored
  /\ call.category = "top" /\ call.color # "original"
  /\ call.prev # Null /\ call.prev.bottom # Null
  /\ tasks = {}
  /\ Staged => pendingChanges = call.prev

-----------------------------------------------------------------------------
(* The wardrobe registry on its own: any sequence of insertions into the      *)
(* default catalog                                                            *)

\* The items handed to handleGarmentCategorized: the uploads of either
\* category at every clock value, and the items of the default catalog
InsertedItems ==
  { customGarmentInfo(category, time) :
      category \in {"top", "bottom"}, time \in 0..MaxClock }
    \cup { defaultWardrobe[i] : i \in 1..Len(defaultWardrobe) }

InitRegistry == Init

InsertGarment ==
  /\ \E item \in InsertedItems :
       /\ wardrobe' = handleGarmentCategorized(item)
       /\ call' = [op |-> "handleGarmentCategorized", prev |-> wardrobe,
                   item |-> item]
  /\ UNCHANGED <<baseModelUrl, displayImageUrl, committedVars, pendingChanges,
                 isLoading, loadingMessage, error, panelVars, tasks, nextId, now,
                 design>>
  /\ settled' = Null

NextRegistry == InsertGarment

SpecRegistry == InitRegistry /\ [][NextRegistry]_vars

HasId(registry, id) == \E i \in 1..Len(registry) : registry[i].id = id

\* C12: the registry is identity-unique: no two items share an id; inserting
\* an item whose id is present leaves the registry as it was; a new item comes
\* after all existing items, which keep their order
RegistryIsIdentityUnique ==
  /\ \A i, j \in 1..Len(wardrobe) : wardrobe[i].id = wardrobe[j].id => i = j
  /\ Called("handleGarmentCategorized") =>
       /\ HasId(call.prev, call.item.id) => wardrobe = call.prev
       /\ ~HasId(call.prev, call.item.id) =>
            /\ Len(wardrobe) = Len(call.prev) + 1
            /\ SubSeq(wardrobe, 1, Len(call.prev)) = call.prev
            /\ wardrobe[Len(wardrobe)] = call.item

\* C12, witness: an upload whose id an earlier upload of the other category
\* already took was inserted, and the registry kept its length
DuplicateIdInserted ==
  /\ Called("handleGarmentCategorized")
  /\ Len(call.prev) > Len(defaultWardrobe)
  /\ HasId(call.prev, call.item.id)
  /\ \A i \in 1..Len(call.prev) : call.prev[i] # call.item
  /\ wardrobe = call.prev

\* The items of a registry
Registered(registry) == { registry[i] : i \in 1..Len(registry) }

\* C13: garments are never removed: an item that is in the wardrobe registry
\* is still in it after every step of the orchestrator
GarmentsNeverRemoved ==
  [][Registered(wardrobe) \subseteq Registered(wardrobe')]_vars

\* The regenerations the step launches
Launched == GenTasks' \ GenTasks

\* C14: a regeneration is launched only when a diff exists: the outfit of
\* every composite request issued differs from the committed outfit at launch
\* time in one of the seven components of the diff
LaunchOnlyWhenDiff ==
  [][\A t \in Launched : DiffReference(t, Committed)]_vars

-----------------------------------------------------------------------------
(* The composite request builder: generateCompositeImage up to the remote     *)
(* call. The prompt is the sequence of the lines appended to it, each with    *)
(* the value its template interpolates                                        *)

\* if (x) on an optional string
Truthy(x) == x # Undefined /\ x # ""

\* dataUrlToParts: the media type and the payload the URL carries; the URL of
\* the finalized model image stands for its own payload
dataUrlToParts(dataUrl) ==
  IF dataUrl.kind = "data"
  THEN [mimeType |-> dataUrl.mimeType, data |-> dataUrl.data]
  ELSE [mimeType |-> "image/png", data |-> dataUrl]

dataUrlToPart(dataUrl) ==
  LET p == dataUrlToParts(dataUrl) IN ImagePart(p.mimeType, p.data)

\* lib/utils urlToFile(item.url, item.name): the picture of the garment,
\* rendered to a PNG file
urlToFile(item) == [type |-> "image/png", content |-> [garment |-> item.id]]

\* fileToPart: the file read as a data URL, then split by dataUrlToParts
fileToPart(file) ==
  LET p == dataUrlToParts([kind |-> "data", mimeType |-> file.type,
                           data |-> file.content])
  IN ImagePart(p.mimeType, p.data)

Line(kind, value) == [kind |-> kind, value |-> value]

\* The texts of the two marker parts
TopMarker == <<Line("TopGarmentImage", Undefined)>>
BottomMarker == <<Line("BottomGarmentImage", Undefined)>>

\* Mutant of modelParts: the parts array outlives the call, so a build starts
\* from the parts of the build before it
modelPartsKept(base) ==
  (IF call # Null /\ call.op = "generateCompositeImage" THEN call.parts ELSE <<>>)
    \o <<dataUrlToPart(base)>>

\* const parts = [modelImagePart]
modelParts(base) == <<dataUrlToPart(base)>>

\* The two parts pushed for a worn garment: its marker, then its image
garmentParts(marker, item) ==
  IF item = Null THEN <<>>
  ELSE <<TextPart(marker), fileToPart(urlToFile(item))>>

\* The lines appended to the prompt for a worn garment
garmentLines(apply, colored, item) ==
  IF item = Null THEN <<>>
  ELSE <<Line(apply, Undefined)>>
         \o (IF Truthy(item.activeColor)
             THEN <<Line(colored, item.activeColor)>> ELSE <<>>)

\* The lines appended after the garments: pose, expression, background
sceneLines(poseInstruction, expression, background) ==
  <<Line("Pose", poseInstruction)>>
    \o (IF Truthy(expression) /\ expression # "Default"
        THEN <<Line("Expression", expression)>> ELSE <<>>)
    \o (IF Truthy(background) /\ background # "Original Studio"
        THEN <<Line("ReplaceBackground", background)>>
        ELSE <<Line("PreserveBackground", Undefined)>>)

\* Mutant of compositePrompt: the color clauses are appended after the scene
\* lines, and for every worn garment
compositePromptColorsLast(poseInstruction, top, bottom, expression, background) ==
  <<Line("Preamble", Undefined)>>
    \o (IF top = Null THEN <<>> ELSE <<Line("ApplyTop", Undefined)>>)
    \o (IF bottom = Null THEN <<>> ELSE <<Line("ApplyBottom", Undefined)>>)
    \o sceneLines(poseInstruction, expression, background)
    \o (IF top = Null THEN <<>> ELSE <<Line("TopColor", top.activeColor)>>)
    \o (IF bottom = Null THEN <<>> ELSE <<Line("BottomColor", bottom.activeColor)>>)

\* The value of prompt when it is pushed
compositePrompt(poseInstruction, top, bottom, expression, background) ==
  <<Line("Preamble", Undefined)>>
    \o garmentLines("ApplyTop", "TopColor", top)
    \o garmentLines("ApplyBottom", "BottomColor", bottom)
    \o sceneLines(poseInstruction, expression, background)

\* Mutant of generateCompositeImage: the garments are pushed bottom first and
\* each image comes before its marker
generateCompositeImageBottomFirst(base, poseInstruction, top, bottom, expression, background) ==
  modelParts(base)
    \o (IF bottom = Null THEN <<>>
        ELSE <<fileToPart(urlToFile(bottom)), TextPart(BottomMarker)>>)
    \o (IF top = Null THEN <<>>
        ELSE <<fileToPart(urlToFile(top)), TextPart(TopMarker)>>)
    \o <<TextPart(compositePrompt(poseInstruction, top, bottom, expression,
                                  background))>>

\* generateCompositeImage: the parts of the request it sends
generateCompositeImage(base, poseInstruction, top, bottom, expression, background) ==
  modelParts(base)
    \o garmentParts(TopMarker, top)
    \o garmentParts(BottomMarker, bottom)
    \o <<TextPart(compositePrompt(poseInstruction, top, bottom, expression,
                                  background))>>

\* The builder on its own: the request of every outfit is built, then the
\* request of every outfit, then the request of the first outfit once more
InitBuilder == Init

BuildRequest ==
  /\ \/ call = Null
     \/ Called("generateCompositeImage") /\ call.before = Null
     \/ Called("generateCompositeImage") /\ call.before # Null
          /\ call.before.before = Null
  /\ \E o \in IF call # Null /\ call.before # Null THEN {call.before.outfit}
              ELSE Outfits,
        base \in ModelUrls :
       call' = [op |-> "generateCompositeImage", outfit |-> o, base |-> base,
                parts |-> generateCompositeImage(base, PoseText(o.poseIndex),
                                                 o.top, o.bottom, o.expression,
                                                 o.background),
                before |-> call]
  /\ UNCHANGED <<baseModelUrl, displayImageUrl, committedVars, pendingChanges,
                 isLoading, loadingMessage, error, wardrobe, panelVars, tasks,
                 nextId, now, design>>
  /\ settled' = Null

NextBuilder == BuildRequest

SpecBuilder == InitBuilder /\ [][NextBuilder]_vars

\* The part is a text part with the text given
IsText(part, text) == part.inlineData = Null /\ part.text = text

\* The part is the picture of the garment
IsImageOf(part, item) ==
  /\ part.inlineData # Null
  /\ part.inlineData = [mimeType |-> "image/png", data |-> [garment |-> item.id]]

\* C15: the parts of a composite request are ordered: the base model image
\* first; then, iff a top is worn, the top marker text followed by the top
\* image; then, iff a bottom is worn, the bottom marker text followed by the
\* bottom image; then the instruction text, last. The request has 2, 4 or 6
\* parts
RequestPartsOrdered ==
  Called("generateCompositeImage") =>
    LET parts == call.parts
        n == Len(parts)
        o == call.outfit
        t == IF o.top = Null THEN 0 ELSE 2
        b == IF o.bottom = Null THEN 0 ELSE 2
    IN /\ n \in {2, 4, 6}
       /\ n = 2 + t + b
       /\ parts[1].inlineData # Null
       /\ parts[1].inlineData = [mimeType |-> "image/png", data |-> call.base]
       /\ o.top # Null => IsText(parts[2], TopMarker) /\ IsImageOf(parts[3], o.top)
       /\ o.bottom # Null =>
            /\ IsText(parts[2 + t], BottomMarker)
            /\ IsImageOf(parts[3 + t], o.bottom)
       /\ parts[n].inlineData = Null
       /\ parts[n].text[1] = Line("Preamble", Undefined)

\* C15, witness: a request for a top and a bottom was built, with six parts
RequestWithBothGarmentsBuilt ==
  /\ Called("generateCompositeImage")
  /\ call.outfit.top # Null
  /\ call.outfit.bottom # Null
  /\ Len(call.parts) = 6

\* The instruction block of the request built
Prompt == call.parts[Len(call.parts)].text

\* The place of each kind of line in the order the claim fixes; the two
\* background instructions share the last place
LineRank ==
  [Preamble |-> 1, ApplyTop |-> 2, TopColor |-> 3, ApplyBottom |-> 4,
   BottomColor |-> 5, Pose |-> 6, Expression |-> 7, ReplaceBackground |-> 8,
   PreserveBackground |-> 8]

HasLine(prompt, kind) == \E i \in 1..Len(prompt) : prompt[i].kind = kind

\* The line of the kind is in the prompt exactly when the condition holds,
\* and carries the value
LineIff(prompt, kind, condition, value) ==
  /\ HasLine(prompt, kind) <=> condition
  /\ \A i \in 1..Len(prompt) : prompt[i].kind = kind => prompt[i].value = value

\* C16: the instruction block is built in the order preamble, top
\* instruction, top color clause, bottom instruction, bottom color clause,
\* pose, expression, background; a garment instruction appears iff the garment
\* is worn, a color clause iff the garment is worn and has an active color, the
\* pose instruction always and with the catalog text at the pose index, the
\* expression instruction iff the expression is not "Default", and exactly one
\* background instruction: replace iff the background is not "Original
\* Studio", preserve otherwise
InstructionBlockOrdered ==
  Called("generateCompositeImage") =>
    LET prompt == Prompt
        o == call.outfit
    IN /\ \A i \in 1..Len(prompt) : prompt[i].kind \in DOMAIN LineRank
       /\ \A i, j \in 1..Len(prompt) :
            i < j => LineRank[prompt[i].kind] < LineRank[prompt[j].kind]
       /\ LineIff(prompt, "Preamble", TRUE, Undefined)
       /\ LineIff(prompt, "ApplyTop", o.top # Null, Undefined)
       /\ LineIff(prompt, "TopColor",
                  o.top # Null /\ ActiveColorOf(o.top) # Undefined,
                  ActiveColorOf(o.top))
       /\ LineIff(prompt, "ApplyBottom", o.bottom # Null, Undefined)
       /\ LineIff(prompt, "BottomColor",
                  o.bottom # Null /\ ActiveColorOf(o.bottom) # Undefined,
                  ActiveColorOf(o.bottom))
       /\ LineIff(prompt, "Pose", TRUE, POSE_INSTRUCTIONS[o.poseIndex + 1])
       /\ LineIff(prompt, "Expression", o.expression # "Default", o.expression)
       /\ LineIff(prompt, "ReplaceBackground", o.background # "Original Studio",
                  o.background)
       /\ LineIff(prompt, "PreserveBackground", o.background = "Original Studio",
                  Undefined)

\* C16, witness: the block of a colored top, an uncolored bottom, a custom
\* expression and a custom background was built: every line but the bottom
\* color clause, seven lines
FullInstructionBlockBuilt ==
  /\ Called("generateCompositeImage")
  /\ ActiveColorOf(call.outfit.top) \notin {Undefined}
  /\ call.outfit.bottom # Null
  /\ ActiveColorOf(call.outfit.bottom) = Undefined
  /\ call.outfit.expression \notin {EXPRESSION_PRESETS[i] : i \in 1..Len(EXPRESSION_PRESETS)}
  /\ call.outfit.background \notin {BACKGROUND_PRESETS[i] : i \in 1..Len(BACKGROUND_PRESETS)}
  /\ call.outfit.poseIndex = Len(POSE_INSTRUCTIONS) - 1
  /\ Len(Prompt) = 7

\* The builds the harness has applied, the latest one included
RECURSIVE Builds(_)
Builds(c) == IF c = Null THEN {} ELSE {c} \cup Builds(c.before)

\* The inputs of a build: the base image and the outfit state, that is the
\* garments with their active colors, expression, background and pose text
BuilderInputs(c) ==
  [base |-> c.base, top |-> c.outfit.top, bottom |-> c.outfit.bottom,
   expression |-> c.outfit.expression, background |-> c.outfit.background,
   poseInstruction |-> PoseText(c.outfit.poseIndex)]

InstructionText(c) == c.parts[Len(c.parts)].text

-----------------------------------------------------------------------------
(* The response classifier: a pose change is launched in either design and    *)
(* its handler resumes with every response of the bounded response space      *)

\* The finish reasons of a candidate: none, the normal stop, a safety stop
FinishReasons == {Undefined, "STOP", "SAFETY"}

\* The parts of a candidate answering the request of task t: none, text only,
\* an image after a text, two images
CandidateParts(t) ==
  LET png == ImagePart("image/png", [of |-> Request(t), n |-> 1])
      jpeg == ImagePart("image/jpeg", [of |-> Request(t), n |-> 2])
  IN { <<>>, <<TextPart("done")>>, <<TextPart("done"), png>>, <<jpeg, png>> }

\* The sequences of at most n elements of S
RECURSIVE SeqsUpTo(_, _)
SeqsUpTo(S, n) ==
  IF n = 0 THEN {<<>>}
  ELSE LET shorter == SeqsUpTo(S, n - 1)
       IN shorter \cup { Append(q, x) : q \in shorter, x \in S }

\* Every response of the image model within the bounds
ClassifierResponses(t) ==
  { Response(blockReason, candidates, text) :
      blockReason \in {Undefined, "SAFETY"},
      candidates \in SeqsUpTo({ Candidate(f, ps) : f \in FinishReasons,
                                                  ps \in CandidateParts(t) },
                              MaxCandidates),
      text \in { <<>>, <<" ", "n", "o", " ">> } }

InitClassifier == Init

\* The handler suspended on generateCompositeImage resumes with the response
ClassifyResponse ==
  /\ call = Null
  /\ \E t \in GenTasks : \E response \in ClassifierResponses(t) :
       /\ IF Immediate THEN updateOutfitSettled(t, response)
          ELSE handleApplyChangesSettled(t, response)
       /\ call' = [op |-> "handleApiResponse", response |-> response,
                   result |-> handleApiResponse(response), request |-> t,
                   committed |-> Committed, displayed |-> displayImageUrl]

NextClassifier ==
  \/ ModelFinalized
  \/ ClickPose
  \/ ModelFinalizedStaged
  \/ ClickPoseStaged
  \/ ClickGenerate
  \/ ClassifyResponse

SpecClassifier == InitClassifier /\ [][NextClassifier]_vars

\* The response has an image part in some candidate
HasImage(response) ==
  \E i \in 1..Len(response.candidates) :
    \E j \in 1..Len(response.candidates[i].parts) :
      response.candidates[i].parts[j].inlineData # Null

\* The step into this state classified a response and ran the handler on it
Classified == Called("handleApiResponse") /\ settled # Null

\* The handler left the committed outfit and the displayed image as they were
CommittedUnchanged ==
  Committed = call.committed /\ displayImageUrl = call.displayed

\* C18: a response carrying a block indicator is classified as Blocked and
\* never as Success, even when a candidate contains an image part: no image is
\* extracted and the committed state stays unchanged
BlockedNeverSuccess ==
  (Classified /\ call.response.blockReason # Undefined) =>
    /\ ~call.result.ok
    /\ call.result.error = [kind |-> "Blocked", reason |-> call.response.blockReason]
    /\ CommittedUnchanged
    /\ error # Null

\* C18, witness: a blocked response whose first candidate stopped normally
\* with an image was classified, for a request of another pose
BlockedResponseWithImageClassified ==
  /\ Classified
  /\ call.response.blockReason # Undefined
  /\ HasImage(call.response)
  /\ call.response.candidates[1].finishReason = "STOP"
  /\ call.request.poseIndex # currentPoseIndex
  /\ ~call.result.ok

\* The positions <<candidate, part>> of the image parts of a response
ImagePositions(response) ==
  UNION { { <<i, j>> : j \in { k \in 1..Len(response.candidates[i].parts) :
                               response.candidates[i].parts[k].inlineData # Null } } :
          i \in 1..Len(response.candidates) }

\* The position that comes first scanning the candidates in order
FirstPosition(positions) ==
  CHOOSE p \in positions :
    \A q \in positions : p[1] < q[1] \/ (p[1] = q[1] /\ p[2] <= q[2])

\* text is what is left of full once the white space at its two ends is gone
IsTrimOf(text, full) ==
  /\ text = <<>> \/ (~IsSpace(text[1]) /\ ~IsSpace(text[Len(text)]))
  /\ \E a, b \in 0..Len(full) :
       /\ a + b <= Len(full)
       /\ SubSeq(full, a + 1, Len(full) - b) = text
       /\ \A i \in (1..a) \cup ((Len(full) - b + 1)..Len(full)) : IsSpace(full[i])

\* C19: handleApiResponse yields exactly one outcome for every response,
\* decided in this order: Blocked if a block reason is present; else Success
\* with the first image part found scanning the candidates in order, its
\* media type and data preserved; else Refused if the finish reason is present
\* and not STOP; else Empty with the trimmed fallback text. A response with an
\* image part and a non-STOP finish reason is Success
ClassifiedInOrder ==
  Classified =>
    LET r == call.response
        res == call.result
        positions == ImagePositions(r)
        finishReason == IF r.candidates = <<>> THEN Undefined
                        ELSE r.candidates[1].finishReason
        outcome == IF r.blockReason # Undefined THEN "Blocked"
                   ELSE IF positions # {} THEN "Success"
                   ELSE IF finishReason \notin {Undefined, "STOP"} THEN "Refused"
                   ELSE "Empty"
    IN /\ res.ok \in BOOLEAN
       /\ res.ok <=> outcome = "Success"
       /\ ~res.ok => res.error.kind = outcome
       /\ settled.outcome = outcome
       /\ outcome = "Blocked" => res.error.reason = r.blockReason
       /\ outcome = "Success" =>
            LET p == FirstPosition(positions)
                image == r.candidates[p[1]].parts[p[2]].inlineData
            IN /\ res.value.mimeType = image.mimeType
               /\ res.value.data = image.data
               /\ displayImageUrl = [kind |-> "data", mimeType |-> image.mimeType,
                                     data |-> image.data]
       /\ outcome = "Refused" => res.error.reason = finishReason
       /\ outcome = "Empty" => IsTrimOf(res.error.text, r.text)

\* C19, witness: a response whose first candidate stopped for safety without
\* an image and whose second candidate carries two images was classified as
\* Success with the first image of the second candidate, and committed
SecondCandidateImageClassified ==
  /\ Classified
  /\ call.response.blockReason = Undefined
  /\ Len(call.response.candidates) = 2
  /\ call.response.candidates[1].finishReason = "SAFETY"
  /\ ImagePositions(call.response) = {<<2, 1>>, <<2, 2>>}
  /\ call.result.ok
  /\ call.result.value.mimeType = "image/jpeg"
  /\ currentPoseIndex = call.request.poseIndex
  /\ currentPoseIndex # call.committed.poseIndex

\* C19, witness of the last branch: a response without candidates was
\* classified as Empty with its text trimmed
EmptyResponseClassified ==
  /\ Classified
  /\ call.response.candidates = <<>>
  /\ ~call.result.ok
  /\ call.result.error = [kind |-> "Empty", text |-> <<"n", "o">>]

\* The finish reasons of the candidates that are not the normal stop
NonStopReasons(response) ==
  { response.candidates[i].finishReason : i \in 1..Len(response.candidates) }
    \ {Undefined, "STOP"}

\* C20: a response with no block indicator, no image part in any candidate
\* and a finish reason other than STOP is classified as Refused with that
\* finish reason and never as Empty, whichever candidate carries the finish
\* reason; the committed state is unchanged
NonStopFinishIsRefused ==
  (/\ Classified
   /\ call.response.blockReason = Undefined
   /\ ~HasImage(call.response)
   /\ NonStopReasons(call.response) # {}) =>
    /\ ~call.result.ok
    /\ call.result.error.kind = "Refused"
    /\ call.result.error.reason \in NonStopReasons(call.response)
    /\ CommittedUnchanged

\* C20 with the finish reason on the first candidate, the one the code reads
FirstCandidateNonStopIsRefused ==
  (/\ Classified
   /\ call.response.blockReason = Undefined
   /\ ~HasImage(call.response)
   /\ call.response.candidates # <<>>
   /\ call.response.candidates[1].finishReason \notin {Undefined, "STOP"}) =>
    /\ call.result.error = [kind |-> "Refused",
                            reason |-> call.response.candidates[1].finishReason]
    /\ CommittedUnchanged

-----------------------------------------------------------------------------
(* The panels: uploads and custom scene texts in either design, with Start    *)
(* Over; the answer each suspended panel handler resumes with is recorded     *)

InitPanels == Init

\* handleFileChange resumes with the answer of categorizeGarment
CategorizeAnswer ==
  \E t \in tasks : \E answer \in CategoryAnswers \cup {Thrown} :
  \E time \in now..MaxClock :
    /\ IF Immediate THEN handleFileChangeSettled(t, answer, time)
       ELSE handleFileChangeSettledStaged(t, answer, time)
    /\ call' = [op |-> "categorizeGarment", answer |-> answer, task |-> t,
                time |-> time]

\* handleCustomSubmit resumes with the answer of validateInput
ValidateAnswer ==
  \E t \in tasks : \E answer \in ValidationAnswers \cup {Thrown} :
    /\ IF Immediate THEN handleCustomSubmitSettled(t, answer)
       ELSE handleCustomSubmitSettledStaged(t, answer)
    /\ call' = [op |-> "validateInput", answer |-> answer, task |-> t]

NextPanels ==
  \/ ModelFinalized
  \/ ModelFinalizedStaged
  \/ UploadGarment
  \/ UploadGarmentStaged
  \/ SubmitCustom
  \/ SubmitCustomStaged
  \/ StartOver
  \/ CategorizeAnswer
  \/ ValidateAnswer

SpecPanels == InitPanels /\ [][NextPanels]_vars

\* The step resumes a panel handler with an answer of the remote call named
Resumed(op) == call' # call /\ call'.op = op

\* The label of an answer, trimmed and lower-cased, is "top" or "bottom"
LabelAccepted(answer) ==
  /\ answer # Thrown
  /\ ToLowerCase(Trim(answer.text)) \in {TextTop, TextBottom}

\* The step hands the upload of the answer's category to
\* handleGarmentCategorized
UploadRegistered ==
  LET category == IF ToLowerCase(Trim(call'.answer.text)) = TextTop THEN "top"
                  ELSE "bottom"
      item == Item(CustomId(call'.time), category, Undefined)
  IN wardrobe' = IF HasId(wardrobe, item.id) THEN wardrobe
                 ELSE Append(wardrobe, item)

\* The step leaves registry, pending and committed outfit as they are and
\* launches no regeneration
NothingSelected ==
  /\ wardrobe' = wardrobe
  /\ pendingChanges' = pendingChanges
  /\ UNCHANGED committedVars
  /\ GenTasks' = GenTasks

UploadedItem ==
  Item(CustomId(call'.time),
       IF ToLowerCase(Trim(call'.answer.text)) = TextTop THEN "top" ELSE "bottom",
       Undefined)

\* The step selects the item for the slot of its category: staged in pending,
\* or sent in a regeneration request
SelectedForItsSlot(item) ==
  IF Staged
  THEN pendingChanges' # Null /\ pendingChanges'[item.category] = item
  ELSE \E g \in GenTasks' \ GenTasks : g[item.category] = item

\* C22: after every successful categorization of an upload the registry holds
\* exactly one more item than before, whose identity differs from every
\* identity that was in the registry, and that item is selected for the slot
\* of its category
CategorizedUploadAddedAndSelected ==
  [][(Resumed("categorizeGarment") /\ LabelAccepted(call'.answer)) =>
       /\ ~HasId(wardrobe, UploadedItem.id)
       /\ wardrobe' = Append(wardrobe, UploadedItem)
       /\ SelectedForItsSlot(UploadedItem)]_vars

\* C22 without the selection: the registry grows by one item of a new identity
CategorizedUploadAdded ==
  [][(Resumed("categorizeGarment") /\ LabelAccepted(call'.answer)) =>
       /\ ~HasId(wardrobe, UploadedItem.id)
       /\ wardrobe' = Append(wardrobe, UploadedItem)]_vars

\* C22 without the registry: the uploaded item is selected
CategorizedUploadSelected ==
  [][(Resumed("categorizeGarment") /\ LabelAccepted(call'.answer)) =>
       SelectedForItsSlot(UploadedItem)]_vars

\* The answer of the validation call is "yes" after trimming and lower-casing
AnsweredYes(answer) ==
  /\ answer # Thrown
  /\ ToLowerCase(Trim(answer.text)) = TextYes

\* The step applies the custom text of the task: it stages it, or sends it in
\* a regeneration request
CustomTextApplied(t) ==
  IF Staged
  THEN pendingChanges' # pendingChanges /\ pendingChanges'[t.type] = t.value
  ELSE \E g \in GenTasks' \ GenTasks : g[t.type] = t.value

\* C23: a custom expression or background is applied only if the validation
\* call returned text that is "yes" after trimming and lower-casing; for any
\* other answer and for a thrown call, pending and committed state are
\* unchanged and no regeneration is launched
CustomTextAppliedOnlyIfYes ==
  [][Resumed("validateInput") =>
       /\ CustomTextApplied(call'.task) => AnsweredYes(call'.answer)
       /\ ~AnsweredYes(call'.answer) =>
            /\ pendingChanges' = pendingChanges
            /\ UNCHANGED committedVars
            /\ GenTasks' = GenTasks]_vars

\* C23, witness: the answer "yes." came back for a custom background and
\* nothing was staged or launched
AlmostYesRejected ==
  /\ Called("validateInput")
  /\ call.answer = TextResponse(<<"y", "e", "s", ".">>)
  /\ call.task.type = "background"
  /\ call.task.live
  /\ GenTasks = {}
  /\ Staged => pendingChanges = initialState
  /\ sceneError = InvalidMessage(call.task.value, "background")

\* C23, witness of the accepted case: the answer "Yes\n" came back and the
\* custom expression was staged or sent
YesAnswerApplied ==
  /\ Called("validateInput")
  /\ call.answer = TextResponse(<<"Y", "e", "s", "\n">>)
  /\ call.task.type = "expression"
  /\ IF Staged THEN pendingChanges # Null /\ pendingChanges.expression = call.task.value
     ELSE \E g \in GenTasks : g.expression = call.task.value

\* The message names the value: the value is part of its text
NamesValue(message, value) ==
  /\ "value" \in DOMAIN message
  /\ message.value = value

\* C24: whenever a custom expression or background is rejected, because the
\* answer is not "yes" or because the validation call failed, the user-visible
\* error message names the rejected value exactly as submitted
RejectionNamesValue ==
  [][(Resumed("validateInput") /\ ~AnsweredYes(call'.answer)) =>
       NamesValue(sceneError', call'.task.value)]_vars

\* C24 for an answer that is not "yes", in a scene panel that is still mounted
InvalidAnswerNamesValue ==
  [][(/\ Resumed("validateInput")
      /\ call'.answer # Thrown
      /\ ~AnsweredYes(call'.answer)
      /\ call'.task.live) =>
       NamesValue(sceneError', call'.task.value)]_vars

\* C24 for a failed validation call, in a scene panel that is still mounted
FailedValidationNamesValue ==
  [][(Resumed("validateInput") /\ call'.answer = Thrown /\ call'.task.live) =>
       NamesValue(sceneError', call'.task.value)]_vars

-----------------------------------------------------------------------------
(* Properties of the orchestrators, continued *)

\* The indices of the pose catalog
PoseIndices == 0..(Len(POSE_INSTRUCTIONS) - 1)

\* C25: poseIndex is a valid index into the six-entry pose catalog in every
\* reachable state, in the pending and in the committed outfit, so the pose
\* text passed to the request builder is always defined
PoseIndexValid ==
  /\ Len(POSE_INSTRUCTIONS) = 6
  /\ currentPoseIndex \in PoseIndices
  /\ pendingChanges # Null => pendingChanges.poseIndex \in PoseIndices
  /\ \A t \in GenTasks :
       /\ t.poseIndex \in PoseIndices
       /\ t.poseInstruction # Undefined
       /\ t.poseInstruction = POSE_INSTRUCTIONS[t.poseIndex + 1]

(* The commit of the immediate App, field by field *)

\* The regeneration the step resumes with a generated image
Committing(t) ==
  /\ Immediate
  /\ t \in GenTasks /\ t \notin tasks'
  /\ settled' # Null /\ settled'.outcome = "Success"

\* C27: in the immediate App a successful commit changes only the fields named
\* by the edit: each committed field that is not in config has after the commit
\* the value it had immediately before the commit
CommitChangesOnlyNamedFields ==
  [][\A t \in tasks : Committing(t) =>
       \A f \in OutfitFields \ t.config : Committed'[f] = Committed[f]]_vars

\* C28: after Start Over, and until a new model is finalized, the committed
\* outfit, the displayed image, the error field and the busy flag keep their
\* values: the completion, successful or failed, of a regeneration launched
\* before Start Over changes none of them
LateCompletionChangesNothing ==
  [][(baseModelUrl = Null /\ settled' # Null) =>
       /\ Committed' = Committed
       /\ displayImageUrl' = displayImageUrl
       /\ error' = error
       /\ isLoading' = isLoading]_vars

\* C28, as a state invariant: while no model is finalized the four of them
\* have their initial values
StartOverStateKept ==
  baseModelUrl = Null =>
    /\ Committed = initialState
    /\ displayImageUrl = Null
    /\ error = Null
    /\ isLoading = FALSE

\* The garments that occupy a slot, committed or pending
SlotGarments ==
  ({wornTop, wornBottom}
     \cup (IF pendingChanges = Null THEN {}
           ELSE {pendingChanges.top, pendingChanges.bottom})) \ {Null}

\* C29: in every reachable state each garment that occupies a top or bottom
\* slot, in the committed outfit and in the pending outfit, has an identity
\* that is present in the wardrobe registry
SlotGarmentsRegistered == \A item \in SlotGarments : HasId(wardrobe, item.id)

\* C29, up to Start Over: a step other than Start Over keeps every slot garment
\* registered
SlotGarmentsStayRegistered ==
  [][(SlotGarmentsRegistered /\ Registered(wardrobe) \subseteq Registered(wardrobe')
        /\ \A t \in GenTasks : \A item \in {t.top, t.bottom} \ {Null} :
             HasId(wardrobe, item.id))
       => SlotGarmentsRegistered']_vars

\* The steps that launch, complete and abandon regenerations, and the remote
\* call of a regeneration in flight eventually returns or throws
NextLive ==
  \/ StartOver
  \/ ModelFinalized
  \/ ClickGarment
  \/ ClickColor
  \/ ClickPose
  \/ GarmentLoaded
  \/ CompositeSettled
  \/ ModelFinalizedStaged
  \/ ClickPoseStaged
  \/ ClickGenerate
  \/ CompositeSettledStaged

SpecLive ==
  /\ Init /\ [][NextLive]_vars
  /\ WF_vars(CompositeSettled)
  /\ WF_vars(CompositeSettledStaged)

\* The busy flag is down and the loading message is empty
Quiet == isLoading = FALSE /\ loadingMessage = ""

\* C30: every launched regeneration whose remote call eventually returns or
\* throws is followed by a state in which isLoading is false and the loading
\* message is empty
RegenerationLeadsToQuiet ==
  \A id \in 1..MaxTasks : (\E t \in GenTasks : t.id = id) ~> Quiet

\* C30, at the step itself: the state a regeneration resumes into, with an
\* image or with an error, is quiet
SettledIsQuiet == [][settled' # Null => Quiet']_vars

\* C30, witness: a regeneration has just failed while another one is in
\* flight, and the state is quiet
FailedRegenerationLeftQuiet ==
  /\ settled # Null /\ settled.outcome # "Success"
  /\ GenTasks # {}
  /\ Quiet

\* C25, witness: the last pose of the catalog is committed and a regeneration
\* for the first pose is in flight
LastPoseCommitted ==
  /\ currentPoseIndex = Len(POSE_INSTRUCTIONS) - 1
  /\ displayImageUrl # baseModelUrl
  /\ \E t \in GenTasks : t.poseIndex = 0 /\ t.poseInstruction = POSE_INSTRUCTIONS[1]

-----------------------------------------------------------------------------
(* The two orchestrators side by side: one edit from one idle state, first
   through the immediate handlers, then through the staging handlers and the
   Generate Image button *)

\* The single edits the controls offer
Edits ==
  { [kind |-> "select", item |-> item] : item \in GarmentChoices }
    \cup { [kind |-> "remove", category |-> c] : c \in {"top", "bottom"} }
    \cup { [kind |-> "color", category |-> c, color |-> color] :
             c \in {"top", "bottom"}, color \in ColorChoices }
    \cup { [kind |-> "expression", value |-> v] : v \in ExpressionValues }
    \cup { [kind |-> "background", value |-> v] : v \in BackgroundValues }
    \cup { [kind |-> "pose", index |-> i] : i \in PoseChoices }

\* The control of the edit is rendered and enabled: a wardrobe tile that is not
\* worn, the remove button and the swatches of a filled slot
Offered(edit, top, bottom) ==
  IF edit.kind = "select"
  THEN edit.item.id # IdOf(IF edit.item.category = "top" THEN top ELSE bottom)
  ELSE IF edit.kind \in {"remove", "color"}
  THEN (IF edit.category = "top" THEN top ELSE bottom) # Null
  ELSE TRUE

\* The handler of the immediate App the control calls
ApplyEdit(edit) ==
  IF edit.kind = "select" THEN handleGarmentSelect(View, edit.item, {})
  ELSE IF edit.kind = "remove" THEN handleRemoveGarment(edit.category)
  ELSE IF edit.kind = "color" THEN handleColorChange(edit.category, edit.color)
  ELSE IF edit.kind = "expression" THEN handleExpressionChange(View, edit.value, {})
  ELSE IF edit.kind = "background" THEN handleBackgroundChange(View, edit.value, {})
  ELSE handlePoseSelect(edit.index)

\* The handler of the staged App the control calls
StageEdit(edit) ==
  IF edit.kind = "select" THEN handleGarmentSelectStaged(edit.item)
  ELSE IF edit.kind = "remove" THEN handleRemoveGarmentStaged(edit.category)
  ELSE IF edit.kind = "color" THEN handleColorChangeStaged(edit.category, edit.color)
  ELSE IF edit.kind = "expression"
  THEN pendingChanges' = handlePendingChange(pendingChanges, [expression |-> edit.value])
  ELSE IF edit.kind = "background"
  THEN pendingChanges' = handlePendingChange(pendingChanges, [background |-> edit.value])
  ELSE pendingChanges' = handlePendingChange(pendingChanges, [poseIndex |-> edit.index])

\* The regeneration in flight, if any
RequestInFlight(ts) == IF ts = {} THEN Null ELSE CHOOSE t \in ts : TRUE

\* What the claim compares: the committed outfit and the displayed image
Outcome(committed, displayed) == [committed |-> committed, displayed |-> displayed]

\* Every idle state of the immediate App
InitSubsume == Immediate /\ InitHarness({Null}, Outfits)

EditImmediate ==
  /\ Immediate /\ call = Null
  /\ \E edit \in Edits :
       /\ Offered(edit, wornTop, wornBottom)
       /\ ApplyEdit(edit)
       /\ call' = [op |-> "edit", phase |-> "immediate", edit |-> edit,
                   start |-> Committed, request |-> RequestInFlight(tasks'),
                   answer |-> Null,
                   result |-> Outcome(Committed, displayImageUrl)]
  /\ UNCHANGED <<baseModelUrl, displayImageUrl, committedVars, pendingChanges,
                 wardrobe, panelVars, now, design>>
  /\ settled' = Null

ImmediateSettled ==
  /\ Immediate /\ Called("edit") /\ call.phase = "immediate"
  /\ call.request # Null
  /\ \E answer \in Answers(call.request) :
       /\ updateOutfitSettled(call.request, answer)
       /\ call' = [call EXCEPT !.phase = "immediate-done", !.answer = answer,
                               !.result = Outcome(Committed', displayImageUrl')]

\* The staged App in the same idle state: the outfit the edit started from is
\* committed, and the pending outfit equals it
SameStateStaged ==
  /\ Immediate /\ Called("edit")
  /\ \/ call.phase = "immediate-done"
     \/ call.phase = "immediate" /\ call.request = Null
  /\ design' = "staged"
  /\ wornTop' = call.start.top
  /\ wornBottom' = call.start.bottom
  /\ currentExpression' = call.start.expression
  /\ currentBackground' = call.start.background
  /\ currentPoseIndex' = call.start.poseIndex
  /\ pendingChanges' = call.start
  /\ displayImageUrl' = baseModelUrl
  /\ isLoading' = FALSE
  /\ loadingMessage' = ""
  /\ error' = Null
  /\ tasks' = {}
  /\ nextId' = 0
  /\ call' = [call EXCEPT !.phase = "staged"]
  /\ UNCHANGED <<baseModelUrl, wardrobe, panelVars, now>>
  /\ settled' = Null

EditStaged ==
  /\ Staged /\ Called("edit") /\ call.phase = "staged"
  /\ StageEdit(call.edit)
  /\ call' = [call EXCEPT !.phase = "staged-edited"]
  /\ UNCHANGED <<baseModelUrl, displayImageUrl, committedVars, isLoading,
                 loadingMessage, error, wardrobe, panelVars, nextId, now, design,
                 tasks>>
  /\ settled' = Null

\* The Generate Image button, rendered iff hasPendingChanges && !isLoading
GenerateStaged ==
  /\ Staged /\ Called("edit") /\ call.phase = "staged-edited"
  /\ hasPendingChanges /\ ~isLoading
  /\ handleApplyChanges
  /\ call' = [call EXCEPT !.phase = "staged-launched"]
  /\ UNCHANGED <<baseModelUrl, displayImageUrl, committedVars, pendingChanges,
                 wardrobe, panelVars, now, design>>
  /\ settled' = Null

\* The remote call of the staged App has the outcome the one of the immediate
\* App had
StagedSettled ==
  /\ Staged /\ Called("edit") /\ call.phase = "staged-launched"
  /\ \E t \in GenTasks :
     \E answer \in IF call.answer = Null THEN Answers(t) ELSE {call.answer} :
       /\ handleApplyChangesSettled(t, answer)
       /\ call' = [call EXCEPT !.phase = "staged-done"]

NextSubsume ==
  \/ EditImmediate
  \/ ImmediateSettled
  \/ SameStateStaged
  \/ EditStaged
  \/ GenerateStaged
  \/ StagedSettled

SpecSubsume == InitSubsume /\ [][NextSubsume]_vars

\* The staged App has gone as far as the edit takes it
StagedAt(phase) == Staged /\ Called("edit") /\ call.phase = phase

\* The staged App issues a request iff the immediate App issued one, and the
\* same one
SameRequestIssued ==
  /\ StagedAt("staged-edited") => (hasPendingChanges <=> call.request # Null)
  /\ StagedAt("staged-launched") =>
       /\ call.request # Null
       /\ \A t \in GenTasks : Request(t) = Request(call.request)

\* For the same remote outcome both reach the same committed outfit and image
SameOutcomeReached ==
  /\ (StagedAt("staged-edited") /\ ~hasPendingChanges) =>
       Outcome(Committed, displayImageUrl) = call.result
  /\ StagedAt("staged-done") => Outcome(Committed, displayImageUrl) = call.result

\* C26: from every idle state with pending equal to committed and for every
\* single edit, the immediate App's updateOutfit and the staged App's staging
\* followed by one apply issue the same generation request and, for the same
\* remote outcome, reach the same committed outfit and displayed image
StagedSubsumesImmediate == SameRequestIssued /\ SameOutcomeReached

\* The edit leaves the outfit it starts from as it is: the swatch of the color
\* the garment already has
SwatchOfActiveColor ==
  /\ Called("edit") /\ call.edit.kind = "color"
  /\ LET item == IF call.edit.category = "top" THEN call.start.top
                 ELSE call.start.bottom
     IN Recolor(item, call.edit.color) = item

\* C26, every other edit: the two Apps agree
StagedSubsumesImmediateOnChanges == ~SwatchOfActiveColor => StagedSubsumesImmediate

\* C26, the case where they agree: an edit committed by both
EditCommittedByBoth ==
  /\ StagedAt("staged-done")
  /\ settled # Null /\ settled.outcome = "Success"
  /\ Committed # call.start
  /\ Outcome(Committed, displayImageUrl) = call.result

====
